---- MODULE Spec2Model ----
(***************************************************************************)
(* Verification model of the claudex sandbox core: the cancellable turn    *)
(* processor (app/tasks/chat_processor.py), the command transports         *)
(* (app/services/transports/{base,docker,e2b}.py) and the CLI output       *)
(* parser.  Each component has its own specification over the shared       *)
(* variables; the variables of the other components stay at their idle     *)
(* values.                                                                 *)
(***************************************************************************)
EXTENDS Integers, Sequences, FiniteSets, TLC

\* ------------------------------------------------------------------ bounds
\* Number of events the agent stream can yield in one turn.
MaxEvents == 2

VARIABLES
    turn,   \* one agent turn: the main task, the revocation watcher, the
            \* agent stream, the chat's event log and message status
    par,    \* one _parse_cli_output generator fed with the CLI's output
    tr,     \* one command transport, its CLI process and its tasks
    dk,     \* the reader of one Docker exec-attach stream
    es,     \* one chat's event log and one client's event stream
    ck,     \* one sandbox's checkpoint directory and working tree
    oq,     \* one drop-oldest bounded queue
    ts,     \* one terminal connection and its PTY sessions
    pty,    \* one provider's registry of PTY sessions
    rt,     \* one retried backend operation
    sb,     \* one provider's sandboxes and its cache of handles
    np,     \* one call of normalize_path
    sec,    \* one sandbox's shell profile
    fw,     \* the output of one PTY session on its way to the client
    cv,     \* one sandbox's checkpoints and the calls that name one by id
    ex,     \* one foreground execute_command call on the E2B backend
    lb,     \* one sandbox's checkpoints and the hard-link base of each create
    rv      \* one chat's task key and revoked flag over consecutive turns

vars == <<turn, par, tr, dk, es, ck, oq, ts,
          pty, rt, sb, np, sec, fw, cv, ex, lb, rv>>

\* The value of a component's variable in the specifications of the others.
Idle == [idle |-> TRUE]

\* =====================================================================
\* CLI output parser (transports/base.py)
\*
\* Text is a sequence of one-character strings.  ESC stands for the
\* character \x1B.  The alphabet of the model is: { } [ ] : , " space \n \r
\* ESC, the digits 1 2 3 and the letters of Letters.  On this alphabet the
\* decoder below is json.JSONDecoder.raw_decode restricted to objects,
\* arrays, strings without backslash escapes and unsigned integers.
\* =====================================================================

ESC == "ESC"
Digits == {"1", "2", "3"}
Letters == {"a", "b", "e", "l", "m", "p", "r", "s", "t", "u", "y"}
\* str.strip() / str.lstrip() whitespace, and the whitespace json skips.
PyWhitespace == {" ", "\n", "\r"}
JsonWhitespace == {" ", "\n", "\r"}
\* Characters below 0x20, which a strict JSON string may not contain.
ControlChars == {ESC, "\n", "\r"}
\* The classes of ANSI_ESCAPE_RE = \x1B\[[0-?]*[ -/]*[@-~] on the alphabet.
CsiParam == Digits \cup {":"}
CsiIntermediate == {" ", "\"", ","}
CsiFinal == Letters \cup {"[", "]", "{", "}"}

RECURSIVE SkipClass(_, _, _)
\* The first index >= i of s whose character is not in cls (Len(s)+1 if none).
SkipClass(s, i, cls) ==
    IF i <= Len(s) /\ s[i] \in cls THEN SkipClass(s, i + 1, cls) ELSE i

Drop(s, n) == SubSeq(s, n + 1, Len(s))

\* The index of the last character of the match of ANSI_ESCAPE_RE that
\* starts at i, or 0 when it does not match there.  The three classes are
\* disjoint, so the greedy match is the only one.
AnsiMatchEnd(s, i) ==
    IF i + 1 <= Len(s) /\ s[i] = ESC /\ s[i + 1] = "["
      THEN LET j == SkipClass(s, SkipClass(s, i + 2, CsiParam), CsiIntermediate)
           IN  IF j <= Len(s) /\ s[j] \in CsiFinal THEN j ELSE 0
      ELSE 0

RECURSIVE AnsiSubFrom(_, _)
AnsiSubFrom(s, i) ==
    IF i > Len(s) THEN <<>>
    ELSE LET e == AnsiMatchEnd(s, i)
         IN  IF e > 0 THEN AnsiSubFrom(s, e + 1)
                      ELSE <<s[i]>> \o AnsiSubFrom(s, i + 1)

\* ANSI_ESCAPE_RE.sub("", chunk)
AnsiSub(chunk) == AnsiSubFrom(chunk, 1)

\* clean_chunk.replace("\r", "")
RemoveCR(s) == SelectSeq(s, LAMBDA c : c # "\r")

RECURSIVE SplitFrom(_, _, _)
SplitFrom(s, i, cur) ==
    IF i > Len(s) THEN <<cur>>
    ELSE IF s[i] = "\n" THEN <<cur>> \o SplitFrom(s, i + 1, <<>>)
    ELSE SplitFrom(s, i + 1, Append(cur, s[i]))

\* clean_chunk.split("\n")
SplitLines(s) == SplitFrom(s, 1, <<>>)

LStrip(s) == Drop(s, SkipClass(s, 1, PyWhitespace) - 1)

RECURSIVE RStrip(_)
RStrip(s) ==
    IF s # <<>> /\ s[Len(s)] \in PyWhitespace
      THEN RStrip(SubSeq(s, 1, Len(s) - 1)) ELSE s

\* str.strip()
Strip(s) == RStrip(LStrip(s))

RECURSIVE FindFrom(_, _, _)
FindFrom(s, i, cs) ==
    IF i > Len(s) THEN 0 ELSE IF s[i] \in cs THEN i ELSE FindFrom(s, i + 1, cs)

\* min(json_line.find("{"), json_line.find("[")) over those found, 1-based;
\* 0 when neither occurs.
FirstBrace(line) == FindFrom(line, 1, {"{", "["})

\* ---- json.JSONDecoder.raw_decode

DecodeFail == [ok |-> FALSE, val |-> <<>>, end |-> 0]

RECURSIVE StringEnd(_, _)
\* py_scanstring from index j: the index of the closing quote, 0 when the
\* string is unterminated or holds a control character.
StringEnd(s, j) ==
    IF j > Len(s) THEN 0
    ELSE IF s[j] = "\"" THEN j
    ELSE IF s[j] \in ControlChars THEN 0
    ELSE StringEnd(s, j + 1)

RECURSIVE DictSet(_, _, _)
\* dict assignment: a repeated key keeps its place and takes the new value.
DictSet(members, key, val) ==
    IF members = <<>> THEN << <<key, val>> >>
    ELSE IF members[1][1] = key THEN << <<key, val>> >> \o Tail(members)
    ELSE <<members[1]>> \o DictSet(Tail(members), key, val)

RECURSIVE ScanValue(_, _), ScanMembers(_, _, _), ScanItems(_, _, _)

\* scan_once(s, i): the value that starts exactly at index i; end is the
\* index after it.
ScanValue(s, i) ==
    IF i > Len(s) THEN DecodeFail
    ELSE IF s[i] = "\"" THEN
        LET e == StringEnd(s, i + 1)
        IN  IF e = 0 THEN DecodeFail
            ELSE [ok |-> TRUE, val |-> [k |-> "str", v |-> SubSeq(s, i + 1, e - 1)],
                  end |-> e + 1]
    ELSE IF s[i] \in Digits THEN
        LET e == SkipClass(s, i, Digits)
        IN  [ok |-> TRUE, val |-> [k |-> "num", v |-> SubSeq(s, i, e - 1)], end |-> e]
    ELSE IF s[i] = "{" THEN
        LET j == SkipClass(s, i + 1, JsonWhitespace)
        IN  IF j <= Len(s) /\ s[j] = "}"
              THEN [ok |-> TRUE, val |-> [k |-> "obj", v |-> <<>>], end |-> j + 1]
              ELSE ScanMembers(s, j, <<>>)
    ELSE IF s[i] = "[" THEN
        LET j == SkipClass(s, i + 1, JsonWhitespace)
        IN  IF j <= Len(s) /\ s[j] = "]"
              THEN [ok |-> TRUE, val |-> [k |-> "arr", v |-> <<>>], end |-> j + 1]
              ELSE ScanItems(s, j, <<>>)
    ELSE DecodeFail

\* JSONObject from the index j of a member's key.
ScanMembers(s, j, acc) ==
    IF j > Len(s) \/ s[j] # "\"" THEN DecodeFail
    ELSE LET ke == StringEnd(s, j + 1)
         IN  IF ke = 0 THEN DecodeFail
             ELSE LET c == SkipClass(s, ke + 1, JsonWhitespace)
                  IN  IF c > Len(s) \/ s[c] # ":" THEN DecodeFail
                      ELSE LET r == ScanValue(s, SkipClass(s, c + 1, JsonWhitespace))
                           IN  IF ~r.ok THEN DecodeFail
                               ELSE LET acc2 == DictSet(acc, SubSeq(s, j + 1, ke - 1), r.val)
                                        d == SkipClass(s, r.end, JsonWhitespace)
                                    IN  IF d > Len(s) THEN DecodeFail
                                        ELSE IF s[d] = "}"
                                          THEN [ok |-> TRUE,
                                                val |-> [k |-> "obj", v |-> acc2],
                                                end |-> d + 1]
                                        ELSE IF s[d] = ","
                                          THEN ScanMembers(
                                                 s, SkipClass(s, d + 1, JsonWhitespace), acc2)
                                        ELSE DecodeFail

\* JSONArray from the index j of an item.
ScanItems(s, j, acc) ==
    LET r == ScanValue(s, j)
    IN  IF ~r.ok THEN DecodeFail
        ELSE LET acc2 == Append(acc, r.val)
                 d == SkipClass(s, r.end, JsonWhitespace)
             IN  IF d > Len(s) THEN DecodeFail
                 ELSE IF s[d] = "]"
                   THEN [ok |-> TRUE, val |-> [k |-> "arr", v |-> acc2], end |-> d + 1]
                 ELSE IF s[d] = ","
                   THEN ScanItems(s, SkipClass(s, d + 1, JsonWhitespace), acc2)
                 ELSE DecodeFail

\* self._json_decoder.raw_decode(working)
RawDecode(working) == ScanValue(working, 1)

\* json.loads(s): one value with nothing but whitespace around it.
JsonLoadsOk(s) ==
    LET r == ScanValue(s, SkipClass(s, 1, JsonWhitespace))
    IN  r.ok /\ SkipClass(s, r.end, JsonWhitespace) > Len(s)

RECURSIVE ParseLoop(_, _)
ParseLoop(working, messages) ==
    IF working = <<>> THEN [rest |-> working, msgs |-> messages]
    ELSE LET w == LStrip(working)
             r == RawDecode(w)
         IN  IF ~r.ok THEN [rest |-> w, msgs |-> messages]
             ELSE ParseLoop(Drop(w, r.end - 1), Append(messages, r.val))

\* _parse_json_buffer(buffer) -> (remainder, messages)
ParseJsonBuffer(buffer) == ParseLoop(buffer, <<>>)

TypeKey == <<"t", "y", "p", "e">>
ResultStr == [k |-> "str", v |-> <<"r", "e", "s", "u", "l", "t">>]

\* isinstance(data, dict) and data.get("type") == "result"
IsResult(data) ==
    /\ data.k = "obj"
    /\ \E n \in 1..Len(data.v) : data.v[n][1] = TypeKey /\ data.v[n][2] = ResultStr

\* The parser without the `break` after a result object.
UpToResult_NoBreak(msgs) == msgs

\* The messages of parsed_messages that are yielded: up to and including the
\* first result object.
RECURSIVE UpToResult(_)
UpToResult(msgs) ==
    IF msgs = <<>> THEN <<>>
    ELSE IF IsResult(msgs[1]) THEN <<msgs[1]>>
    ELSE <<msgs[1]>> \o UpToResult(Tail(msgs))

HasResult(msgs) == \E n \in 1..Len(msgs) : IsResult(msgs[n])

\* self._max_buffer_size of the model's transport.
MaxBufferSize == 24

\* The state of one _parse_cli_output generator.
ParserStart ==
    [json_buffer |-> <<>>, json_started |-> FALSE, should_stop |-> FALSE,
     yielded |-> <<>>, error |-> "none"]

\* The parser without the cap on its buffer.
ExceedsBuffer_Never(buffer) == FALSE

\* `if len(json_buffer) > self._max_buffer_size`
ExceedsBuffer(buffer) == Len(buffer) > MaxBufferSize

\* The body of `for json_line in json_lines` for one line of a chunk.
ProcessLine(st, raw) ==
    LET line == Strip(raw)
        pos == FirstBrace(line)
    IN  IF line = <<>> THEN st
        ELSE IF ~st.json_started /\ pos = 0 THEN st
        ELSE LET jl == IF st.json_started THEN line ELSE Drop(line, pos - 1)
                 buf == st.json_buffer \o jl
             IN  IF ExceedsBuffer(buf)
                   THEN [st EXCEPT !.json_started = TRUE, !.json_buffer = <<>>,
                                   !.error = "CLIJSONDecodeError"]
                   ELSE LET p == ParseJsonBuffer(buf)
                            stop == HasResult(p.msgs)
                            rest == IF stop THEN <<>> ELSE p.rest
                        IN  [st EXCEPT
                               !.json_buffer = rest,
                               !.json_started = ~(p.msgs # <<>> /\ rest = <<>>),
                               !.should_stop = stop,
                               !.yielded = @ \o UpToResult(p.msgs)]

RECURSIVE ProcessLines(_, _)
ProcessLines(st, lines) ==
    IF lines = <<>> \/ st.should_stop \/ st.error # "none" THEN st
    ELSE ProcessLines(ProcessLine(st, lines[1]), Tail(lines))

\* One iteration of `while True` for a chunk taken from the queue.
ProcessChunk(st, chunk) ==
    ProcessLines(st, SplitLines(RemoveCR(AnsiSub(chunk))))

\* What follows the loop: the leftover buffer is parsed once more and a
\* remainder that is not JSON raises CLIJSONDecodeError; then a recorded
\* _exit_error is raised.  exit_error is "none" or the kind of the error.
AfterLoop(st, exit_error) ==
    LET p == ParseJsonBuffer(st.json_buffer)
        st2 == [st EXCEPT !.yielded = @ \o p.msgs]
    IN  IF st.json_buffer # <<>> /\ Strip(p.rest) # <<>> /\ ~JsonLoadsOk(p.rest)
          THEN [st2 EXCEPT !.error = "CLIJSONDecodeError"]
        ELSE IF exit_error # "none" THEN [st2 EXCEPT !.error = exit_error]
        ELSE st2

RECURSIVE FeedAll(_, _)
\* The generator run over a whole sequence of chunks followed by the
\* sentinel, with no exit error recorded.
FeedAll(st, chunks) ==
    IF st.should_stop THEN AfterLoop(st, "none")
    ELSE IF st.error # "none" THEN st
    ELSE IF chunks = <<>> THEN AfterLoop(st, "none")
    ELSE FeedAll(ProcessChunk(st, chunks[1]), Tail(chunks))

(***************************************************************************)
(* One run of the parser over the output of a CLI process.  The output is  *)
(* cut into chunks at arbitrary places, as the sandbox stream delivers it; *)
(* after the last chunk the sentinel ends the run.                         *)
(*   text      the characters the process wrote                            *)
(*   mask      mask[i] iff text[i] belongs to an ANSI escape sequence      *)
(*   emitted   the JSON objects the process wrote, in order                *)
(*   pos       how many characters have been delivered                     *)
(*   fed       the chunks delivered so far                                 *)
(*   fedPlain  the same chunks without the escape-sequence characters      *)
(*   st        the locals of the generator                                 *)
(*   phase     "running", "ended" (StopAsyncIteration) or "raised"         *)
(***************************************************************************)
MaxChunks == 3

ObjA == <<"{", "\"", "a", "\"", ":", "1", "}">>
ObjB == <<"{", "\"", "b", "\"", ":", "2", "}">>
ObjS == <<"{", "\"", "a", "\"", ":", "\"", "b", " ", "a", "\"", "}">>
ObjR == <<"{", "\"", "t", "y", "p", "e", "\"", ":",
          "\"", "r", "e", "s", "u", "l", "t", "\"", "}">>
EscColor == <<ESC, "[", "3", "1", "m">>
EscReset == <<ESC, "[", "m">>
NL == <<"\n">>
Unterminated == <<"{", "\"", "a", "\"", ":", "\"">> \o [i \in 1..20 |-> "a"]

Plain(cs) == [cs |-> cs, esc |-> FALSE]
Escape(cs) == [cs |-> cs, esc |-> TRUE]

\* Each output is the sequence of pieces the process wrote and the texts
\* of the JSON objects among them.
CliOutputs ==
    { [segs |-> <<Plain(ObjA), Plain(ObjB)>>, objs |-> <<ObjA, ObjB>>],
      [segs |-> <<Plain(ObjA), Plain(NL), Plain(ObjR), Plain(NL),
                  Plain(ObjB), Plain(NL)>>,
       objs |-> <<ObjA, ObjR, ObjB>>],
      [segs |-> <<Plain(ObjR), Plain(ObjA)>>, objs |-> <<ObjR, ObjA>>],
      [segs |-> <<Escape(EscColor), Plain(ObjA), Escape(EscReset), Plain(NL),
                  Plain(ObjB)>>,
       objs |-> <<ObjA, ObjB>>],
      [segs |-> <<Plain(SubSeq(ObjA, 1, 5)), Escape(EscReset),
                  Plain(SubSeq(ObjA, 6, 7))>>,
       objs |-> <<ObjA>>],
      [segs |-> <<Plain(<<"a", "b">>), Plain(NL), Plain(ObjA), Plain(NL)>>,
       objs |-> <<ObjA>>],
      [segs |-> <<Plain(ObjS), Plain(NL)>>, objs |-> <<ObjS>>],
      [segs |-> <<Plain(ObjB)>>, objs |-> <<ObjB>>],
      [segs |-> <<Plain(Unterminated)>>, objs |-> <<>>] }

RECURSIVE TextOf(_)
TextOf(segs) ==
    IF segs = <<>> THEN <<>> ELSE segs[1].cs \o TextOf(Tail(segs))

RECURSIVE MaskOf(_)
MaskOf(segs) ==
    IF segs = <<>> THEN <<>>
    ELSE [i \in 1..Len(segs[1].cs) |-> segs[1].esc] \o MaskOf(Tail(segs))

EmittedOf(objs) == [n \in 1..Len(objs) |-> RawDecode(objs[n]).val]

RECURSIVE Unmasked(_, _, _, _)
\* The characters text[a..b] that do not belong to an escape sequence.
Unmasked(text, mask, a, b) ==
    IF a > b THEN <<>>
    ELSE (IF mask[a] THEN <<>> ELSE <<text[a]>>)
             \o Unmasked(text, mask, a + 1, b)

ParserInit ==
    /\ turn = Idle /\ tr = Idle /\ dk = Idle /\ es = Idle /\ ck = Idle
    /\ oq = Idle /\ ts = Idle
    /\ pty = Idle /\ rt = Idle /\ sb = Idle /\ np = Idle
    /\ sec = Idle /\ fw = Idle
    /\ cv = Idle
    /\ ex = Idle
    /\ lb = Idle
    /\ rv = Idle
    /\ \E out \in CliOutputs :
          par = [text |-> TextOf(out.segs), mask |-> MaskOf(out.segs),
                 emitted |-> EmittedOf(out.objs), pos |-> 0,
                 fed |-> <<>>, fedPlain |-> <<>>,
                 st |-> ParserStart, phase |-> "running"]

\* How the generator ends once it left the loop.
Finish(st) == IF st.error # "none" THEN "raised" ELSE "ended"

\* `chunk = await self._stdout_queue.get()` returns the next chunk of the
\* output and the body of the loop runs on it.
ParserChunk ==
    /\ par.phase = "running"
    /\ \E n \in 1..(Len(par.text) - par.pos) :
          /\ Len(par.fed) < MaxChunks - 1 \/ par.pos + n = Len(par.text)
          /\ LET chunk == SubSeq(par.text, par.pos + 1, par.pos + n)
                 plain == Unmasked(par.text, par.mask, par.pos + 1, par.pos + n)
                 st1 == ProcessChunk(par.st, chunk)
                 st2 == IF st1.should_stop THEN AfterLoop(st1, "none") ELSE st1
             IN  par' = [par EXCEPT
                           !.pos = @ + n,
                           !.fed = Append(@, chunk),
                           !.fedPlain = Append(@, plain),
                           !.st = st2,
                           !.phase = IF st1.should_stop \/ st1.error # "none"
                                       THEN Finish(st2) ELSE "running"]
    /\ UNCHANGED <<turn, tr, dk, es, ck, oq, ts,
                 pty, rt, sb, np, sec, fw, cv, ex, lb, rv>>

\* `get()` returns the sentinel after the last chunk.
ParserSentinel ==
    /\ par.phase = "running"
    /\ par.pos = Len(par.text)
    /\ LET st2 == AfterLoop(par.st, "none")
       IN  par' = [par EXCEPT !.st = st2, !.phase = Finish(st2)]
    /\ UNCHANGED <<turn, tr, dk, es, ck, oq, ts,
                 pty, rt, sb, np, sec, fw, cv, ex, lb, rv>>

ParserNext ==
    \/ ParserChunk
    \/ ParserSentinel

SpecParser == ParserInit /\ [][ParserNext]_vars

\* =====================================================================
\* Turn processor (chat_processor.py, claude_agent.py)
\*
\* turn.revoked           the Redis flag REDIS_KEY_CHAT_REVOKED is "1"
\* turn.was_cancelled     StreamContext.was_cancelled
\* turn.cancel_requested  StreamContext.cancel_requested
\* turn.mainPc            where the main task is suspended
\* turn.pendingExc        what propagates through the finally block of
\*                        _process_stream_events
\* turn.watcherPc         where the revocation watcher task is suspended
\* turn.mainCancel        main_task.cancel() was called and CancelledError
\*                        is not yet thrown into the main task
\* turn.cancelledAt       where the main task was suspended when the
\*                        watcher called main_task.cancel()
\* turn.streamPhase       get_ai_stream generator: "init" (before
\*                        _active_transport is set), "active", "ended"
\* turn.streamLeft        events the agent can still yield
\* turn.active_transport  ClaudeAgentService._active_transport is not None
\* turn.transportCreated get_ai_stream created the turn's transport
\* turn.closeAsked        close() was called on the turn's transport
\* turn.events            len(ctx.events)
\* turn.log               the chat's Redis stream, as the kinds appended
\* turn.msgStatus         Message.stream_status of the assistant message
\* turn.outcome           how _drain_ai_stream ended
\* =====================================================================

\* process_chat_stream up to the first await of _process_stream_events: the
\* watcher task is created and the main task awaits the first event.
TurnInit ==
    /\ par = Idle /\ tr = Idle /\ dk = Idle /\ es = Idle /\ ck = Idle
    /\ oq = Idle /\ ts = Idle
    /\ pty = Idle /\ rt = Idle /\ sb = Idle /\ np = Idle
    /\ sec = Idle /\ fw = Idle
    /\ cv = Idle
    /\ ex = Idle
    /\ lb = Idle
    /\ rv = Idle
    /\ turn \in [ revoked : {FALSE}, was_cancelled : {FALSE},
               cancel_requested : {FALSE}, mainPc : {"anext"},
               pendingExc : {"none"}, watcherPc : {"poll"},
               mainCancel : {FALSE}, cancelledAt : {"none"},
               streamPhase : {"init"}, streamLeft : 0..MaxEvents,
               active_transport : {FALSE}, transportCreated : {FALSE},
               closeAsked : {FALSE},
               events : {0}, log : {<<>>}, msgStatus : {"IN_PROGRESS"},
                 outcome : {"running"} ]

\* The cancel endpoint sets the revocation flag.
SetRevoked ==
    /\ ~turn.revoked
    /\ turn.outcome = "running"
    /\ turn' = [turn EXCEPT !.revoked = TRUE]
    /\ UNCHANGED <<par, tr, dk, es, ck, oq, ts,
                 pty, rt, sb, np, sec, fw, cv, ex, lb, rv>>

\* get_ai_stream reaches `self._active_transport = transport` inside the
\* first __anext__.
StreamActivate ==
    /\ turn.mainPc = "anext" /\ ~turn.mainCancel
    /\ turn.streamPhase = "init"
    /\ turn' = [turn EXCEPT !.streamPhase = "active", !.active_transport = TRUE,
                            !.transportCreated = TRUE]
    /\ UNCHANGED <<par, tr, dk, es, ck, oq, ts,
                 pty, rt, sb, np, sec, fw, cv, ex, lb, rv>>

\* __anext__ returns an event: ctx.events.append, then the main task awaits
\* _publish_stream_entry(..., "content", ...).
StreamYield ==
    /\ turn.mainPc = "anext" /\ ~turn.mainCancel
    /\ turn.streamPhase = "active"
    /\ turn.streamLeft > 0
    /\ turn' = [turn EXCEPT !.streamLeft = @ - 1, !.events = @ + 1,
                            !.mainPc = "publish"]
    /\ UNCHANGED <<par, tr, dk, es, ck, oq, ts,
                 pty, rt, sb, np, sec, fw, cv, ex, lb, rv>>

\* redis.xadd of the content entry returns; update_state is synchronous; the
\* loop awaits the next event.
PublishContent ==
    /\ turn.mainPc = "publish" /\ ~turn.mainCancel
    /\ turn' = [turn EXCEPT !.log = Append(@, "content"), !.mainPc = "anext"]
    /\ UNCHANGED <<par, tr, dk, es, ck, oq, ts,
                 pty, rt, sb, np, sec, fw, cv, ex, lb, rv>>

\* Leaving the loop of _process_stream_events runs its finally block up to
\* `await revocation_task`: revocation_task.cancel() is called at once.  A
\* watcher polling the flag ends cancelled.  A watcher inside
\* transport.close() either ends cancelled or, when it is suspended in
\* _cancel_task's `with suppress(CancelledError): await task`, swallows the
\* request and carries on.  A finished watcher is not affected.
EnterFinally(t, exc) ==
    LET f == [t EXCEPT !.mainPc = "fin_wait", !.pendingExc = exc]
    IN  CASE t.watcherPc = "poll"    -> {[f EXCEPT !.watcherPc = "cancelled"]}
          [] t.watcherPc = "closing" -> {[f EXCEPT !.watcherPc = "cancelled"],
                                         [f EXCEPT !.watcherPc = "closing_swallowed"]}
          [] OTHER                   -> {f}

\* The generator ends (StopAsyncIteration): get_ai_stream's finally clears
\* _active_transport and `async with transport` closes the transport.  The
\* stream ends when the agent is finished or when its transport was closed.
StreamEnd ==
    /\ turn.mainPc = "anext" /\ ~turn.mainCancel
    /\ turn.streamPhase = "active"
    /\ turn.streamLeft = 0 \/ turn.closeAsked
    /\ turn' \in EnterFinally(
                   [turn EXCEPT !.streamPhase = "ended", !.active_transport = FALSE,
                                !.closeAsked = TRUE], "none")
    /\ UNCHANGED <<par, tr, dk, es, ck, oq, ts,
                 pty, rt, sb, np, sec, fw, cv, ex, lb, rv>>

\* __anext__ raises an exception (ClaudeAgentException from an SDK error, a
\* failure before the transport exists, an error surfaced by the closed
\* transport): it leaves the loop through the finally block.
StreamRaise ==
    /\ turn.mainPc = "anext" /\ ~turn.mainCancel
    /\ turn.streamPhase \in {"init", "active"}
    /\ turn' \in EnterFinally(
                   [turn EXCEPT !.streamPhase = "ended", !.active_transport = FALSE,
                                !.closeAsked = (@ \/ turn.streamPhase = "active")],
                   "exception")
    /\ UNCHANGED <<par, tr, dk, es, ck, oq, ts,
                 pty, rt, sb, np, sec, fw, cv, ex, lb, rv>>

\* main_task.cancel(): a main task that already waits for the watcher inside
\* `with suppress(CancelledError): await revocation_task` absorbs the request
\* there; anywhere else CancelledError is thrown at its current await.
CancelMain(t) ==
    [t EXCEPT !.cancelledAt = IF t.mainPc = "fin_wait" THEN "finally" ELSE t.mainPc,
              !.mainCancel = (t.mainPc # "fin_wait"),
              !.watcherPc = "done"]

\* cancel_active_stream: closes the active transport, if any, and clears it.
\* _cancel_stream_safely: at most once per turn.
CancelStreamSafely(t) ==
    IF t.cancel_requested THEN t
    ELSE [t EXCEPT !.cancel_requested = TRUE,
                   !.closeAsked = (@ \/ t.active_transport),
                   !.active_transport = FALSE]

\* _monitor_revocation: _wait_for_task_revocation returns because the flag is
\* set; was_cancelled is recorded and _cancel_stream_safely starts.  With no
\* active transport cancel_active_stream does not suspend and the watcher
\* goes on to main_task.cancel() in the same step.
WatcherDetect ==
    /\ turn.watcherPc = "poll"
    /\ turn.revoked
    /\ LET t1 == [turn EXCEPT !.was_cancelled = TRUE]
           t2 == CancelStreamSafely(t1)
       IN  turn' = IF turn.active_transport
                     THEN [t2 EXCEPT !.watcherPc = "closing"]
                     ELSE CancelMain(t2)
    /\ UNCHANGED <<par, tr, dk, es, ck, oq, ts,
                 pty, rt, sb, np, sec, fw, cv, ex, lb, rv>>

\* transport.close() returns to the watcher, which calls main_task.cancel().
WatcherCancelMain ==
    /\ turn.watcherPc \in {"closing", "closing_swallowed"}
    /\ turn' = CancelMain(turn)
    /\ UNCHANGED <<par, tr, dk, es, ck, oq, ts,
                 pty, rt, sb, np, sec, fw, cv, ex, lb, rv>>

\* CancelledError is thrown into the main task while it awaits __anext__:
\* the generator unwinds (closing its transport), the handler sees
\* was_cancelled, _cancel_stream_safely runs, the loop breaks.
MainCancelledAtAnext ==
    /\ turn.mainPc = "anext" /\ turn.mainCancel
    /\ LET t1 == [turn EXCEPT !.mainCancel = FALSE, !.streamPhase = "ended",
                              !.active_transport = FALSE,
                              !.closeAsked = (@ \/ turn.streamPhase = "active")]
       IN  turn' \in IF turn.was_cancelled
                       THEN EnterFinally(CancelStreamSafely(t1), "none")
                       ELSE EnterFinally(t1, "cancelled")
    /\ UNCHANGED <<par, tr, dk, es, ck, oq, ts,
                 pty, rt, sb, np, sec, fw, cv, ex, lb, rv>>

\* CancelledError is thrown into the main task while it awaits redis.xadd in
\* _publish_stream_entry: `except Exception` does not catch it and the loop
\* has no handler around the publish, so it propagates.
MainCancelledAtPublish ==
    /\ turn.mainPc = "publish" /\ turn.mainCancel
    /\ turn' \in EnterFinally([turn EXCEPT !.mainCancel = FALSE], "cancelled")
    /\ UNCHANGED <<par, tr, dk, es, ck, oq, ts,
                 pty, rt, sb, np, sec, fw, cv, ex, lb, rv>>

\* Which branch _drain_ai_stream takes once _process_stream_events is over.
DrainBranch(t) ==
    IF t.pendingExc = "cancelled" THEN "escape"
    ELSE IF t.pendingExc = "exception" THEN "error"
    ELSE IF t.was_cancelled THEN "interrupted"
    ELSE IF t.events = 0 THEN "error"
    ELSE "completed"

\* `await revocation_task` returns; _drain_ai_stream continues after
\* _process_stream_events.
AfterProcess ==
    /\ turn.mainPc = "fin_wait"
    /\ turn.watcherPc \in {"done", "cancelled"}
    /\ turn' = [turn EXCEPT !.mainPc = DrainBranch(turn)]
    /\ UNCHANGED <<par, tr, dk, es, ck, oq, ts,
                 pty, rt, sb, np, sec, fw, cv, ex, lb, rv>>

\* _cleanup_task_resources: the task key and the revoked flag are deleted.
CleanupTaskResources(t) == [t EXCEPT !.revoked = FALSE, !.mainPc = "done"]

\* was_cancelled branch: _update_message_status(INTERRUPTED), then
\* _finalize_stream publishes "complete" and saves the content;
\* StreamCancelled is raised.
FinalizeInterrupted ==
    /\ turn.mainPc = "interrupted"
    /\ turn' = CleanupTaskResources(
                 [CancelStreamSafely(turn) EXCEPT !.msgStatus = "INTERRUPTED",
                                  !.log = Append(@, "complete"),
                                  !.outcome = "interrupted"])
    /\ UNCHANGED <<par, tr, dk, es, ck, oq, ts,
                 pty, rt, sb, np, sec, fw, cv, ex, lb, rv>>

\* Normal end with events: _finalize_stream(COMPLETED).
FinalizeCompleted ==
    /\ turn.mainPc = "completed"
    /\ turn' = CleanupTaskResources(
                 [turn EXCEPT !.msgStatus = "COMPLETED",
                              !.log = Append(@, "complete"),
                              !.outcome = "completed"])
    /\ UNCHANGED <<par, tr, dk, es, ck, oq, ts,
                 pty, rt, sb, np, sec, fw, cv, ex, lb, rv>>

\* `except Exception`: an "error" entry is published and the message is
\* marked FAILED; the exception is raised again.
FinalizeError ==
    /\ turn.mainPc = "error"
    /\ turn' = CleanupTaskResources(
                 [turn EXCEPT !.msgStatus = "FAILED",
                              !.log = Append(@, "error"),
                              !.outcome = "failed"])
    /\ UNCHANGED <<par, tr, dk, es, ck, oq, ts,
                 pty, rt, sb, np, sec, fw, cv, ex, lb, rv>>

\* CancelledError is neither StreamCancelled nor an Exception: it leaves
\* _drain_ai_stream without any finalization; ClaudeAgentService.__aexit__
\* closes a transport that is still active.
EscapeCancelled ==
    /\ turn.mainPc = "escape"
    /\ turn' = CleanupTaskResources(
                 [turn EXCEPT !.closeAsked = (@ \/ turn.active_transport),
                              !.active_transport = FALSE,
                              !.outcome = "cancelled"])
    /\ UNCHANGED <<par, tr, dk, es, ck, oq, ts,
                 pty, rt, sb, np, sec, fw, cv, ex, lb, rv>>

TurnNext ==
    \/ SetRevoked
    \/ StreamActivate
    \/ StreamYield
    \/ PublishContent
    \/ StreamEnd
    \/ StreamRaise
    \/ WatcherDetect
    \/ WatcherCancelMain
    \/ MainCancelledAtAnext
    \/ MainCancelledAtPublish
    \/ AfterProcess
    \/ FinalizeInterrupted
    \/ FinalizeCompleted
    \/ FinalizeError
    \/ EscapeCancelled

SpecTurn == TurnInit /\ [][TurnNext]_vars

\* Every step of the turn's own tasks: all of TurnNext but the request to
\* the cancel endpoint.
TurnStep ==
    \/ StreamActivate
    \/ StreamYield
    \/ PublishContent
    \/ StreamEnd
    \/ StreamRaise
    \/ WatcherDetect
    \/ WatcherCancelMain
    \/ MainCancelledAtAnext
    \/ MainCancelledAtPublish
    \/ AfterProcess
    \/ FinalizeInterrupted
    \/ FinalizeCompleted
    \/ FinalizeError
    \/ EscapeCancelled

\* The event loop runs the main task and the watcher whenever they can go
\* on, Redis answers, and the agent stream yields, ends or fails.
SpecTurnLive == SpecTurn /\ WF_vars(TurnStep)

(***************************************************************************)
(* Command transport (transports/base.py, docker.py, e2b.py)               *)
(*                                                                         *)
(* One transport object, the CLI process it starts in the sandbox, the     *)
(* tasks it creates, the calls its clients make and one consumer of        *)
(* read_messages.  Every await at which another task can run separates     *)
(* two actions.                                                            *)
(*                                                                         *)
(* Fields of the object:                                                   *)
(*   ready, stdin_closed, exit_error                                       *)
(*   monitor_task, reader_task   the field holds a task                    *)
(*   connection         _socket (Docker) or _command (E2B) is set          *)
(*   exec_id, docker_client      set (Docker only)                         *)
(*   executor_shutdown  the ThreadPoolExecutor was shut down (Docker)      *)
(*   queue              _stdout_queue                                      *)
(* Tasks:                                                                  *)
(*   monPc, monCancel   the _monitor_process task and a pending cancel()   *)
(*   rdPc, rdCancel     what puts the output into the queue: the           *)
(*                      _read_socket_data task (Docker) or the SDK's event *)
(*                      handler calling on_stdout (E2B); "put" is a        *)
(*                      suspended queue.put of the chunk `pending`         *)
(*   drain_empty_count  local of _read_socket_data                         *)
(* The CLI process:                                                        *)
(*   proc               "none", "running", "exit0", "exit1" (non-zero      *)
(*                      exit code), "gone" (disappeared), "killed"         *)
(*   unread             the chunks it wrote that were not yet read         *)
(*   objects            how many JSON objects it wrote                     *)
(*   stdinData, eofCount   writes and EOF markers that reached its stdin   *)
(* Calls:                                                                  *)
(*   connectPc          "idle", "s1" (getting the container or sandbox),   *)
(*                      "s2" (starting the CLI), "done", "failed"          *)
(*   wrPc, writeRes, wrCtx   one write call, its outcome and what held     *)
(*                      when it began: connect had completed, an EOF       *)
(*                      marker had reached the process, an end_input call  *)
(*                      was suspended                                      *)
(*   endPc              the end_input calls: "idle", "send" (the send is   *)
(*                      under way), "sent" / "unsent" (it reached stdin or *)
(*                      failed; the call has not resumed), "done"          *)
(*   closePc            the close calls: "idle", "mon" / "rd" (awaiting    *)
(*                      the cancelled task), "kill", "shutdown", "done"    *)
(*   closeSnaps         the fields of the object when each close returned  *)
(*   closedConnected    a close call began after connect had completed     *)
(*   conPc, st          the consumer: "unstarted", "running", "ended",     *)
(*                      "raised"; the locals of _parse_cli_output          *)
(***************************************************************************)
STDOUT_QUEUE_MAXSIZE == 32
DrainLimit == 5
MaxCloses == 2
MaxEndInputs == 2

SENTINEL == <<"SENTINEL">>

LineA == ObjA \o NL
LineR == ObjR \o NL
\* The line of an empty object.
LineE == <<"{", "}">> \o NL
\* The start of an object the process did not finish writing.
PartB == SubSeq(ObjB, 1, 5)

\* What the process writes, with the number of whole objects in it.
Scripts ==
    [short   |-> [out |-> <<LineA>>, objects |-> 1],
     cut     |-> [out |-> <<LineA, PartB>>, objects |-> 1],
     result  |-> [out |-> <<LineA, LineR>>, objects |-> 2],
     filling |-> [out |-> [i \in 1..(STDOUT_QUEUE_MAXSIZE + 1) |-> LineE],
                  objects |-> STDOUT_QUEUE_MAXSIZE + 1]]

\* The calls the clients of the transport make in one run (whether write
\* is called, how many end_input and close calls there are, whether
\* read_messages is iterated), and what the process writes in it.
Scenarios ==
    { [script |-> "short", writes |-> TRUE, ends |-> MaxEndInputs,
       closes |-> 1, reads |-> FALSE],
      [script |-> "short", writes |-> FALSE, ends |-> 0,
       closes |-> MaxCloses, reads |-> FALSE],
      [script |-> "short", writes |-> FALSE, ends |-> 0,
       closes |-> 1, reads |-> TRUE],
      [script |-> "cut", writes |-> FALSE, ends |-> 0,
       closes |-> 1, reads |-> TRUE],
      [script |-> "result", writes |-> FALSE, ends |-> 0,
       closes |-> 1, reads |-> TRUE],
      [script |-> "filling", writes |-> FALSE, ends |-> 0,
       closes |-> 1, reads |-> TRUE] }

\* The state after __init__ (base.py 25-48, docker.py 19-34, e2b.py 20-31).
TransportInit ==
    /\ turn = Idle /\ par = Idle /\ dk = Idle /\ es = Idle /\ ck = Idle
    /\ oq = Idle /\ ts = Idle
    /\ pty = Idle /\ rt = Idle /\ sb = Idle /\ np = Idle
    /\ sec = Idle /\ fw = Idle
    /\ cv = Idle
    /\ ex = Idle
    /\ lb = Idle
    /\ rv = Idle
    /\ \E b \in {"docker", "e2b"}, sc \in Scenarios :
          tr = [backend |-> b, scenario |-> sc,
                ready |-> FALSE, stdin_closed |-> FALSE, exit_error |-> "none",
                monitor_task |-> FALSE, reader_task |-> FALSE,
                connection |-> FALSE, exec_id |-> FALSE, docker_client |-> FALSE,
                executor_shutdown |-> FALSE, queue |-> <<>>,
                monPc |-> "none", monCancel |-> FALSE,
                rdPc |-> "none", rdCancel |-> FALSE, drain_empty_count |-> 0,
                pending |-> <<>>,
                proc |-> "none", unread |-> <<>>,
                objects |-> Scripts[sc.script].objects,
                stdinData |-> 0, eofCount |-> 0,
                connectPc |-> "idle",
                wrPc |-> "idle", writeRes |-> "none",
                wrCtx |-> [connected |-> FALSE, eofSent |-> FALSE,
                           endInFlight |-> FALSE],
                endPc |-> [i \in 1..MaxEndInputs |-> "idle"],
                closePc |-> [i \in 1..MaxCloses |-> "idle"],
                closeSnaps |-> <<>>, closedConnected |-> FALSE,
                conPc |-> "unstarted", st |-> ParserStart]

\* _put_sentinel: put_nowait, QueueFull swallowed.
PutSentinel(t) ==
    [t EXCEPT !.queue = IF Len(@) < STDOUT_QUEUE_MAXSIZE
                          THEN Append(@, SENTINEL) ELSE @]

\* A job handed to the ThreadPoolExecutor has not yet returned to the
\* coroutine that awaits it.
ExecutorBusy(t) ==
    /\ t.backend = "docker"
    /\ \/ t.connectPc \in {"s1", "s2"}
       \/ t.wrPc = "send"
       \/ \E i \in 1..MaxEndInputs : t.endPc[i] \in {"send", "sent", "unsent"}

\* run_in_executor raises RuntimeError once the executor was shut down.
CannotSchedule(t) == t.backend = "docker" /\ t.executor_shutdown

\* connect, up to its first await.
ConnectBegin ==
    /\ tr.connectPc = "idle"
    /\ ~tr.ready
    /\ tr' = [tr EXCEPT !.stdin_closed = FALSE,
                        !.connectPc = IF CannotSchedule(tr) THEN "failed"
                                      ELSE "s1"]
    /\ UNCHANGED <<turn, par, dk, es, ck, oq, ts,
                 pty, rt, sb, np, sec, fw, cv, ex, lb, rv>>

\* The container (Docker) or the sandbox (E2B) is there, or getting it
\* failed; connect goes on to start the CLI.
ConnectSandbox ==
    /\ tr.connectPc = "s1"
    /\ \E ok \in BOOLEAN :
          tr' = [tr EXCEPT
                   !.docker_client = @ \/ (tr.backend = "docker"),
                   !.connectPc = IF ok /\ ~CannotSchedule(tr) THEN "s2"
                                 ELSE "failed"]
    /\ UNCHANGED <<turn, par, dk, es, ck, oq, ts,
                 pty, rt, sb, np, sec, fw, cv, ex, lb, rv>>

\* The CLI was started, or starting it failed; on success connect creates
\* the tasks and sets _ready.
ConnectStart ==
    /\ tr.connectPc = "s2"
    /\ \E ok \in BOOLEAN :
          tr' = IF ok
                  THEN [tr EXCEPT
                          !.connectPc = "done", !.connection = TRUE,
                          !.exec_id = (tr.backend = "docker"),
                          !.reader_task = (tr.backend = "docker"),
                          !.rdPc = "recv", !.rdCancel = FALSE,
                          !.monitor_task = TRUE, !.monPc = "run",
                          !.monCancel = FALSE, !.ready = TRUE,
                          !.proc = "running",
                          !.unread = Scripts[tr.scenario.script].out]
                  ELSE [tr EXCEPT !.connectPc = "failed"]
    /\ UNCHANGED <<turn, par, dk, es, ck, oq, ts,
                 pty, rt, sb, np, sec, fw, cv, ex, lb, rv>>

\* The CLI process exits or disappears, having written its output.
ProcessExit ==
    /\ tr.proc = "running"
    /\ \E how \in {"exit0", "exit1", "gone"} : tr' = [tr EXCEPT !.proc = how]
    /\ UNCHANGED <<turn, par, dk, es, ck, oq, ts,
                 pty, rt, sb, np, sec, fw, cv, ex, lb, rv>>

\* What _monitor_process records for an ended process.
ExitError(proc) ==
    CASE proc = "exit0" -> "none"
      [] proc \in {"exit1", "killed"} -> "ProcessError"
      [] OTHER -> "CLIConnectionError"

\* Docker: the round of the polling loop that ends it.  The process is
\* inspected after the sleep; a round that finds it running changes
\* nothing, and _ready is only cleared together with a cancel().
MonitorPoll ==
    /\ tr.backend = "docker"
    /\ tr.monPc = "run" /\ ~tr.monCancel
    /\ \/ /\ CannotSchedule(tr)
          /\ tr' = [tr EXCEPT !.exit_error = "CLIConnectionError",
                              !.ready = FALSE, !.monPc = "done"]
       \/ /\ ~CannotSchedule(tr)
          /\ tr.proc # "running"
          /\ tr' = [tr EXCEPT
                      !.exit_error = IF ExitError(tr.proc) = "none" THEN @
                                     ELSE ExitError(tr.proc),
                      !.ready = FALSE, !.monPc = "done"]
    /\ UNCHANGED <<turn, par, dk, es, ck, oq, ts,
                 pty, rt, sb, np, sec, fw, cv, ex, lb, rv>>

\* E2B: command.wait() returns or raises once every output event was
\* handled.
MonitorWait ==
    /\ tr.backend = "e2b"
    /\ tr.monPc = "run" /\ ~tr.monCancel
    /\ tr.proc \notin {"none", "running"}
    /\ tr.unread = <<>> /\ tr.rdPc # "put"
    /\ tr' = [PutSentinel([tr EXCEPT
                 !.exit_error = IF ExitError(tr.proc) = "none" THEN @
                                ELSE ExitError(tr.proc)])
                EXCEPT !.ready = FALSE, !.monPc = "done"]
    /\ UNCHANGED <<turn, par, dk, es, ck, oq, ts,
                 pty, rt, sb, np, sec, fw, cv, ex, lb, rv>>

\* CancelledError reaches the monitor task at its await.
MonitorCancelled ==
    /\ tr.monPc = "run" /\ tr.monCancel
    /\ LET t == IF tr.backend = "e2b" THEN PutSentinel(tr) ELSE tr
       IN  tr' = [t EXCEPT !.ready = FALSE, !.monPc = "done",
                           !.monCancel = FALSE]
    /\ UNCHANGED <<turn, par, dk, es, ck, oq, ts,
                 pty, rt, sb, np, sec, fw, cv, ex, lb, rv>>

\* `await self._stdout_queue.put(chunk)`: the chunk is queued, or the
\* putter is suspended while the queue is full.
QueuePut(t, chunk) ==
    IF Len(t.queue) < STDOUT_QUEUE_MAXSIZE
      THEN [t EXCEPT !.queue = Append(@, chunk), !.rdPc = "recv"]
      ELSE [t EXCEPT !.pending = chunk, !.rdPc = "put"]

\* The end of _read_socket_data: `finally: await self._put_sentinel()`.
ReaderEnds(t) ==
    [PutSentinel(t) EXCEPT !.rdPc = "done", !.rdCancel = FALSE,
                           !.pending = <<>>]

\* Docker: one round of the loop of _read_socket_data.  A frame of output
\* is read and put; or nothing is there (a timeout, or the end of the
\* stream of an ended process) and the round counts towards the end of
\* the drain once _ready is cleared; or reading fails: the socket was
\* dropped by close, the executor is shut down, or the connection to a
\* process that disappeared is lost.
ReadSocketData ==
    /\ tr.backend = "docker"
    /\ tr.rdPc = "recv" /\ ~tr.rdCancel
    /\ \/ /\ CannotSchedule(tr) \/ ~tr.connection
          /\ tr' = ReaderEnds(tr)
       \/ /\ ~CannotSchedule(tr) /\ tr.connection
          /\ tr.unread # <<>>
          /\ tr' = QueuePut([tr EXCEPT !.unread = Tail(@),
                                       !.drain_empty_count = 0],
                            Head(tr.unread))
       \/ /\ ~CannotSchedule(tr) /\ tr.connection
          /\ tr.unread = <<>> /\ ~tr.ready
          /\ tr' = IF tr.drain_empty_count + 1 >= DrainLimit
                     THEN ReaderEnds([tr EXCEPT !.drain_empty_count = @ + 1])
                     ELSE [tr EXCEPT !.drain_empty_count = @ + 1]
       \/ /\ ~CannotSchedule(tr) /\ tr.connection
          /\ tr.unread = <<>> /\ tr.proc = "gone"
          /\ tr' = ReaderEnds(tr)
    /\ UNCHANGED <<turn, par, dk, es, ck, oq, ts,
                 pty, rt, sb, np, sec, fw, cv, ex, lb, rv>>

\* E2B: the SDK hands the next piece of output to on_stdout.
OnStdout ==
    /\ tr.backend = "e2b"
    /\ tr.rdPc = "recv"
    /\ tr.unread # <<>>
    /\ tr' = QueuePut([tr EXCEPT !.unread = Tail(@)], Head(tr.unread))
    /\ UNCHANGED <<turn, par, dk, es, ck, oq, ts,
                 pty, rt, sb, np, sec, fw, cv, ex, lb, rv>>

\* A suspended queue.put goes on when the queue has room.
QueuePutResumes ==
    /\ tr.rdPc = "put" /\ ~tr.rdCancel
    /\ Len(tr.queue) < STDOUT_QUEUE_MAXSIZE
    /\ tr' = [tr EXCEPT !.queue = Append(@, tr.pending), !.pending = <<>>,
                        !.rdPc = "recv"]
    /\ UNCHANGED <<turn, par, dk, es, ck, oq, ts,
                 pty, rt, sb, np, sec, fw, cv, ex, lb, rv>>

\* CancelledError reaches the reader task at its await.
ReaderCancelled ==
    /\ tr.rdPc \in {"recv", "put"} /\ tr.rdCancel
    /\ tr' = ReaderEnds(tr)
    /\ UNCHANGED <<turn, par, dk, es, ck, oq, ts,
                 pty, rt, sb, np, sec, fw, cv, ex, lb, rv>>

\* write, up to `await self._send_data(data)`.
WriteBegin ==
    /\ tr.scenario.writes
    /\ tr.wrPc = "idle"
    /\ LET ctx == [connected |-> tr.connectPc = "done",
                   eofSent |-> tr.eofCount > 0,
                   endInFlight |-> \E i \in 1..MaxEndInputs :
                                      tr.endPc[i] \notin {"idle", "done"}]
           t == [tr EXCEPT !.wrCtx = ctx, !.wrPc = "done"]
       IN  tr' = IF ~tr.ready \/ ~tr.connection
                   THEN [t EXCEPT !.writeRes = "NotReady"]
                 ELSE IF tr.stdin_closed
                   THEN [t EXCEPT !.writeRes = "InputClosed"]
                 ELSE IF CannotSchedule(tr)
                   THEN [t EXCEPT !.writeRes = "SendFailed",
                                  !.exit_error = "CLIConnectionError"]
                 ELSE [t EXCEPT !.wrPc = "send"]
    /\ UNCHANGED <<turn, par, dk, es, ck, oq, ts,
                 pty, rt, sb, np, sec, fw, cv, ex, lb, rv>>

\* The data was sent, or sending failed, and write returns or raises.
\* Docker's _socket_send returns without sending when the socket is gone.
WriteSend ==
    /\ tr.wrPc = "send"
    /\ \E ok \in BOOLEAN :
          tr' = IF ok /\ (tr.connection \/ tr.backend = "docker")
                  THEN [tr EXCEPT !.wrPc = "done", !.writeRes = "sent",
                                  !.stdinData = IF tr.connection THEN @ + 1
                                                ELSE @]
                  ELSE [tr EXCEPT !.wrPc = "done", !.writeRes = "SendFailed",
                                  !.exit_error = "CLIConnectionError"]
    /\ UNCHANGED <<turn, par, dk, es, ck, oq, ts,
                 pty, rt, sb, np, sec, fw, cv, ex, lb, rv>>

\* end_input, up to `await self._send_eof()`.
EndInputBegin(i) ==
    /\ i <= tr.scenario.ends
    /\ tr.endPc[i] = "idle"
    /\ i > 1 => tr.endPc[i - 1] # "idle"
    /\ tr' = [tr EXCEPT !.endPc[i] =
                 IF ~tr.ready \/ ~tr.connection \/ tr.stdin_closed
                    \/ CannotSchedule(tr)
                   THEN "done" ELSE "send"]
    /\ UNCHANGED <<turn, par, dk, es, ck, oq, ts,
                 pty, rt, sb, np, sec, fw, cv, ex, lb, rv>>

\* The EOF marker reaches the stdin of the process, or sending it fails.
SendEof(i) ==
    /\ tr.endPc[i] = "send"
    /\ \E ok \in BOOLEAN :
          tr' = IF ok /\ (tr.connection \/ tr.backend = "docker")
                  THEN [tr EXCEPT !.endPc[i] = "sent",
                                  !.eofCount = IF tr.connection THEN @ + 1
                                               ELSE @]
                  ELSE [tr EXCEPT !.endPc[i] = "unsent"]
    /\ UNCHANGED <<turn, par, dk, es, ck, oq, ts,
                 pty, rt, sb, np, sec, fw, cv, ex, lb, rv>>

\* end_input resumes: `self._stdin_closed = True`, or `except Exception`.
EndInputResume(i) ==
    /\ tr.endPc[i] \in {"sent", "unsent"}
    /\ tr' = [tr EXCEPT !.endPc[i] = "done",
                        !.stdin_closed = @ \/ (tr.endPc[i] = "sent")]
    /\ UNCHANGED <<turn, par, dk, es, ck, oq, ts,
                 pty, rt, sb, np, sec, fw, cv, ex, lb, rv>>

\* The fields of the object that close resets.
Snapshot(t) ==
    [ready |-> t.ready, monitor_task |-> t.monitor_task,
     reader_task |-> t.reader_task, connection |-> t.connection,
     exec_id |-> t.exec_id, docker_client |-> t.docker_client,
     stdin_closed |-> t.stdin_closed]

\* The end of close: `self._stdin_closed = False`, the sentinel, return.
CloseReturns(t, i) ==
    LET t1 == PutSentinel([t EXCEPT !.stdin_closed = FALSE,
                                    !.closePc[i] = "done"])
    IN  [t1 EXCEPT !.closeSnaps = Append(@, Snapshot(t1))]

\* Docker's _cleanup_resources once the reader task is awaited, up to
\* `await asyncio.to_thread(self._executor.shutdown, wait=True)`.
DropSocket(t, i) ==
    [t EXCEPT !.reader_task = FALSE, !.connection = FALSE, !.exec_id = FALSE,
              !.docker_client = FALSE, !.executor_shutdown = TRUE,
              !.closePc[i] = "shutdown"]

\* _cleanup_resources, up to its first await that suspends.
CleanupResources(t, i) ==
    IF t.backend = "docker"
      THEN IF t.reader_task /\ t.rdPc \in {"recv", "put"}
             THEN [t EXCEPT !.rdCancel = TRUE, !.closePc[i] = "rd"]
             ELSE DropSocket(t, i)
      ELSE IF t.connection
             THEN [t EXCEPT !.closePc[i] = "kill"]
             ELSE CloseReturns(t, i)

\* close after `await self._cancel_task(self._monitor_task)`.
CloseAfterMonitor(t, i) ==
    CleanupResources([t EXCEPT !.monitor_task = FALSE], i)

\* close, up to its first await that suspends.
CloseBegin(i) ==
    /\ i <= tr.scenario.closes
    /\ tr.closePc[i] = "idle"
    /\ i > 1 => tr.closePc[i - 1] # "idle"
    /\ LET t == [tr EXCEPT !.ready = FALSE,
                            !.closedConnected = @ \/ (tr.connectPc = "done")]
       IN  tr' = IF t.monitor_task /\ t.monPc = "run"
                   THEN [t EXCEPT !.monCancel = TRUE, !.closePc[i] = "mon"]
                   ELSE CloseAfterMonitor(t, i)
    /\ UNCHANGED <<turn, par, dk, es, ck, oq, ts,
                 pty, rt, sb, np, sec, fw, cv, ex, lb, rv>>

\* The cancelled monitor task ended and close goes on.
CloseMonitorAwaited(i) ==
    /\ tr.closePc[i] = "mon"
    /\ tr.monPc = "done"
    /\ tr' = CloseAfterMonitor(tr, i)
    /\ UNCHANGED <<turn, par, dk, es, ck, oq, ts,
                 pty, rt, sb, np, sec, fw, cv, ex, lb, rv>>

\* Docker: the cancelled reader task ended and the cleanup goes on.
CloseReaderAwaited(i) ==
    /\ tr.closePc[i] = "rd"
    /\ tr.rdPc = "done"
    /\ tr' = DropSocket(tr, i)
    /\ UNCHANGED <<turn, par, dk, es, ck, oq, ts,
                 pty, rt, sb, np, sec, fw, cv, ex, lb, rv>>

\* Docker: the executor's threads are joined, after the coroutines that
\* awaited their jobs have resumed, and close returns.
CloseShutdownAwaited(i) ==
    /\ tr.closePc[i] = "shutdown"
    /\ ~ExecutorBusy(tr)
    /\ tr' = CloseReturns(tr, i)
    /\ UNCHANGED <<turn, par, dk, es, ck, oq, ts,
                 pty, rt, sb, np, sec, fw, cv, ex, lb, rv>>

\* E2B: command.kill() returned or raised, and close returns.  The output
\* the killed process had not delivered is lost.
CloseKillAwaited(i) ==
    /\ tr.closePc[i] = "kill"
    /\ tr' = CloseReturns(
                [tr EXCEPT !.connection = FALSE,
                           !.proc = IF @ = "running" THEN "killed" ELSE @,
                           !.unread = <<>>], i)
    /\ UNCHANGED <<turn, par, dk, es, ck, oq, ts,
                 pty, rt, sb, np, sec, fw, cv, ex, lb, rv>>

\* The first __anext__ of read_messages, up to the loop.
ConsumerStart ==
    /\ tr.scenario.reads
    /\ tr.conPc = "unstarted"
    /\ tr' = IF ~tr.ready /\ ~tr.monitor_task
               THEN [tr EXCEPT !.conPc = "raised",
                               !.st.error = "NotConnected"]
               ELSE [tr EXCEPT !.conPc = "running"]
    /\ UNCHANGED <<turn, par, dk, es, ck, oq, ts,
                 pty, rt, sb, np, sec, fw, cv, ex, lb, rv>>

\* `chunk = await self._stdout_queue.get()` returns and the consumer runs
\* up to its next get, or to the end of the generator.
ConsumerGet ==
    /\ tr.conPc = "running"
    /\ tr.queue # <<>>
    /\ LET item == Head(tr.queue)
           st1 == IF item = SENTINEL THEN tr.st
                  ELSE ProcessChunk(tr.st, item)
           over == item = SENTINEL \/ st1.should_stop
           st2 == IF over /\ st1.error = "none"
                    THEN AfterLoop(st1, tr.exit_error) ELSE st1
       IN  tr' = [tr EXCEPT
                    !.queue = Tail(@), !.st = st2,
                    !.conPc = IF st2.error # "none" THEN "raised"
                              ELSE IF over THEN "ended" ELSE "running"]
    /\ UNCHANGED <<turn, par, dk, es, ck, oq, ts,
                 pty, rt, sb, np, sec, fw, cv, ex, lb, rv>>

TransportNext ==
    \/ ConnectBegin
    \/ ConnectSandbox
    \/ ConnectStart
    \/ ProcessExit
    \/ MonitorPoll
    \/ MonitorWait
    \/ MonitorCancelled
    \/ ReadSocketData
    \/ OnStdout
    \/ QueuePutResumes
    \/ ReaderCancelled
    \/ WriteBegin
    \/ WriteSend
    \/ \E i \in 1..MaxEndInputs : EndInputBegin(i)
    \/ \E i \in 1..MaxEndInputs : SendEof(i)
    \/ \E i \in 1..MaxEndInputs : EndInputResume(i)
    \/ \E i \in 1..MaxCloses : CloseBegin(i)
    \/ \E i \in 1..MaxCloses : CloseMonitorAwaited(i)
    \/ \E i \in 1..MaxCloses : CloseReaderAwaited(i)
    \/ \E i \in 1..MaxCloses : CloseShutdownAwaited(i)
    \/ \E i \in 1..MaxCloses : CloseKillAwaited(i)
    \/ ConsumerStart
    \/ ConsumerGet

SpecTransport == TransportInit /\ [][TransportNext]_vars

\* Runs in which read_messages is iterated and neither write, end_input
\* nor close is ever called.
ReadOnlyScenarios ==
    { [script |-> sc, writes |-> FALSE, ends |-> 0, closes |-> 0,
       reads |-> TRUE] : sc \in DOMAIN Scripts }

ReadOnlyInit ==
    /\ turn = Idle /\ par = Idle /\ dk = Idle /\ es = Idle /\ ck = Idle
    /\ oq = Idle /\ ts = Idle /\ pty = Idle /\ rt = Idle /\ sb = Idle
    /\ np = Idle /\ sec = Idle /\ fw = Idle /\ cv = Idle /\ ex = Idle
    /\ lb = Idle /\ rv = Idle
    /\ \E b \in {"docker", "e2b"}, sc \in ReadOnlyScenarios :
          tr = [backend |-> b, scenario |-> sc,
                ready |-> FALSE, stdin_closed |-> FALSE, exit_error |-> "none",
                monitor_task |-> FALSE, reader_task |-> FALSE,
                connection |-> FALSE, exec_id |-> FALSE, docker_client |-> FALSE,
                executor_shutdown |-> FALSE, queue |-> <<>>,
                monPc |-> "none", monCancel |-> FALSE,
                rdPc |-> "none", rdCancel |-> FALSE, drain_empty_count |-> 0,
                pending |-> <<>>,
                proc |-> "none", unread |-> <<>>,
                objects |-> Scripts[sc.script].objects,
                stdinData |-> 0, eofCount |-> 0,
                connectPc |-> "idle",
                wrPc |-> "idle", writeRes |-> "none",
                wrCtx |-> [connected |-> FALSE, eofSent |-> FALSE,
                           endInFlight |-> FALSE],
                endPc |-> [i \in 1..MaxEndInputs |-> "idle"],
                closePc |-> [i \in 1..MaxCloses |-> "idle"],
                closeSnaps |-> <<>>, closedConnected |-> FALSE,
                conPc |-> "unstarted", st |-> ParserStart]

\* The steps of such a run: connect, the process, the monitor, what feeds
\* the queue, and the consumer.
ReadOnlyNext ==
    \/ ConnectBegin
    \/ ConnectSandbox
    \/ ConnectStart
    \/ ProcessExit
    \/ MonitorPoll
    \/ MonitorWait
    \/ ReadSocketData
    \/ OnStdout
    \/ QueuePutResumes
    \/ ConsumerStart
    \/ ConsumerGet

\* ConsumerGet can be taken: the consumer waits in get() and the queue
\* holds an item.
ConsumerCanGet == tr # Idle /\ tr.conPc = "running" /\ tr.queue # <<>>

\* The event loop runs every task that can go on: the monitor, the reader
\* and a suspended put go on when they can, and the consumer keeps
\* iterating read_messages.  The last conjunct is WF_vars(ConsumerGet)
\* with ENABLED <<ConsumerGet>>_vars written out as ConsumerCanGet.
TransportFairness ==
    /\ WF_vars(MonitorPoll) /\ WF_vars(MonitorWait)
    /\ WF_vars(ReadSocketData) /\ WF_vars(OnStdout)
    /\ WF_vars(QueuePutResumes)
    /\ ([]<>(~ConsumerCanGet) \/ []<><<ConsumerGet>>_vars)

SpecTransportLive ==
    ReadOnlyInit /\ [][ReadOnlyNext]_vars /\ TransportFairness

(***************************************************************************)
(* Docker exec-attach stream (docker.py, _read_socket_data)                *)
(*                                                                         *)
(* The bytes of the multiplexed stream reach the reader in pieces of any   *)
(* size up to that of one recv.  A byte is a number in 0..255.             *)
(*   stream     the bytes the daemon sent that were not yet received       *)
(*   buffer, drain_empty_count   locals of _read_socket_data               *)
(*   ready, exit_error           fields of the transport                   *)
(*   queue      _stdout_queue                                              *)
(*   stderr     what the stderr callback was called with                   *)
(*   procPc     "running", "exit0", "exit1": the CLI process               *)
(*   monPc, rdPc   "run" / "done": the monitor and the reader task         *)
(*   oversized  the reader met a header whose length exceeds the maximum   *)
(*   putAfter   how many chunks it queued after that                       *)
(*   conPc, received   the consumer of the queue and the chunks it got     *)
(*   whole      the bytes of the stream from its start                      *)
(*   cut        a recv has ended inside a frame                             *)
(***************************************************************************)
RecvSize == 4096
HeaderLen == 8
StdoutStream == 1
StderrStream == 2
ReplacementChar == 65533

\* int.to_bytes(n, 4, "big")
BigEndian(n) ==
    <<(n \div 16777216) % 256, (n \div 65536) % 256, (n \div 256) % 256,
      n % 256>>

\* int.from_bytes(buffer[4:8], byteorder="big")
FrameSize(buffer) ==
    buffer[5] * 16777216 + buffer[6] * 65536 + buffer[7] * 256 + buffer[8]

\* payload.decode("utf-8", errors="replace") for payloads in which no byte
\* above 127 is part of a well-formed sequence.
Decode(payload) ==
    [i \in 1..Len(payload) |-> IF payload[i] < 128 THEN payload[i]
                               ELSE ReplacementChar]

\* A frame as the daemon sends it, declaring `size` bytes of payload.
FrameOf(type, size, payload) == <<type, 0, 0, 0>> \o BigEndian(size) \o payload
Frame(type, payload) == FrameOf(type, Len(payload), payload)

RECURSIVE ParseFrames_NoCarry(_, _)
ParseFrames_NoCarry(buffer, acc) ==
    IF Len(buffer) < HeaderLen THEN [acc EXCEPT !.buffer = <<>>]
    ELSE LET stream_type == buffer[1]
             frame_size == FrameSize(buffer)
         IN  IF frame_size > MaxBufferSize
               THEN [acc EXCEPT !.buffer = <<>>, !.oversized = TRUE]
             ELSE IF Len(buffer) < HeaderLen + frame_size
               THEN [acc EXCEPT !.buffer = <<>>]
             ELSE LET payload == SubSeq(buffer, HeaderLen + 1,
                                        HeaderLen + frame_size)
                      rest == Drop(buffer, HeaderLen + frame_size)
                  IN  ParseFrames_NoCarry(rest,
                        IF stream_type = StdoutStream
                          THEN [acc EXCEPT !.out = Append(@, Decode(payload))]
                        ELSE IF stream_type = StderrStream
                          THEN [acc EXCEPT !.err = Append(@, Decode(payload))]
                        ELSE acc)

RECURSIVE ParseFrames(_, _)
\* `while len(buffer) >= 8`: the frames at the head of the buffer are taken
\* off it; acc collects what is queued and what goes to the callback.
ParseFrames(buffer, acc) ==
    IF Len(buffer) < HeaderLen THEN [acc EXCEPT !.buffer = buffer]
    ELSE LET stream_type == buffer[1]
             frame_size == FrameSize(buffer)
         IN  IF frame_size > MaxBufferSize
               THEN [acc EXCEPT !.buffer = <<>>, !.oversized = TRUE]
             ELSE IF Len(buffer) < HeaderLen + frame_size
               THEN [acc EXCEPT !.buffer = buffer]
             ELSE LET payload == SubSeq(buffer, HeaderLen + 1,
                                        HeaderLen + frame_size)
                      rest == Drop(buffer, HeaderLen + frame_size)
                  IN  ParseFrames(rest,
                        IF stream_type = StdoutStream
                          THEN [acc EXCEPT !.out = Append(@, Decode(payload))]
                        ELSE IF stream_type = StderrStream
                          THEN [acc EXCEPT !.err = Append(@, Decode(payload))]
                        ELSE acc)

Text1 == <<97, 10>>
Text2 == <<98, 200, 10>>
Filler == [i \in 1..(MaxBufferSize + 1) |-> 120]

\* The streams of the model: frames of both kinds; a frame longer than the
\* maximum between two frames of output; a header that declares more than
\* the maximum with nothing behind it; frames without payload and of a
\* stream type that is neither output nor error among the others.
DockerStreams ==
    { Frame(StdoutStream, Text1) \o Frame(StderrStream, Text1)
          \o Frame(StdoutStream, Text2),
      Frame(StdoutStream, Text1) \o Frame(StdoutStream, Filler)
          \o Frame(StdoutStream, Text2),
      Frame(StdoutStream, Text1) \o FrameOf(StdoutStream, 16777216, <<>>),
      Frame(StderrStream, Text2) \o Frame(StdoutStream, <<>>)
          \o Frame(StdoutStream, Text1) \o Frame(0, Text1)
          \o Frame(StdoutStream, Text2) }

DockerInit ==
    /\ turn = Idle /\ par = Idle /\ tr = Idle /\ es = Idle /\ ck = Idle
    /\ oq = Idle /\ ts = Idle
    /\ pty = Idle /\ rt = Idle /\ sb = Idle /\ np = Idle
    /\ sec = Idle /\ fw = Idle
    /\ cv = Idle
    /\ ex = Idle
    /\ lb = Idle
    /\ rv = Idle
    /\ \E s \in DockerStreams :
          dk = [stream |-> s, buffer |-> <<>>, drain_empty_count |-> 0,
                ready |-> TRUE, exit_error |-> "none", queue |-> <<>>,
                stderr |-> <<>>, procPc |-> "running", monPc |-> "run",
                rdPc |-> "run", oversized |-> FALSE, putAfter |-> 0,
                conPc |-> "running", received |-> <<>>,
                whole |-> s, cut |-> FALSE]

\* One round of the outer loop in which recv returns data.
DockerRecv ==
    /\ dk.rdPc = "run"
    /\ \E n \in 1..Len(dk.stream) :
          /\ n <= RecvSize
          /\ LET data == SubSeq(dk.stream, 1, n)
                 p == ParseFrames(dk.buffer \o data,
                                  [buffer |-> <<>>, out |-> <<>>, err |-> <<>>,
                                   oversized |-> FALSE])
             IN  dk' = [dk EXCEPT
                          !.stream = Drop(@, n),
                          !.drain_empty_count = 0,
                          !.buffer = p.buffer,
                          !.queue = @ \o p.out,
                          !.stderr = @ \o p.err,
                          !.putAfter = IF dk.oversized THEN @ + Len(p.out)
                                       ELSE 0,
                          !.cut = @ \/ p.buffer # <<>>,
                          !.oversized = @ \/ p.oversized]
    /\ UNCHANGED <<turn, par, tr, es, ck, oq, ts,
                 pty, rt, sb, np, sec, fw, cv, ex, lb, rv>>

\* The CLI process exits.
DockerProcessExit ==
    /\ dk.procPc = "running"
    /\ \E how \in {"exit0", "exit1"} : dk' = [dk EXCEPT !.procPc = how]
    /\ UNCHANGED <<turn, par, tr, es, ck, oq, ts,
                 pty, rt, sb, np, sec, fw, cv, ex, lb, rv>>

\* The round of _monitor_process that finds the process ended.
DockerMonitor ==
    /\ dk.monPc = "run"
    /\ dk.procPc # "running"
    /\ dk' = [dk EXCEPT !.exit_error = ExitError(dk.procPc),
                        !.ready = FALSE, !.monPc = "done"]
    /\ UNCHANGED <<turn, par, tr, es, ck, oq, ts,
                 pty, rt, sb, np, sec, fw, cv, ex, lb, rv>>

\* A round in which recv returns nothing once _ready is cleared; the
\* fifth in a row ends the reader, which puts the sentinel.
DockerDrain ==
    /\ dk.rdPc = "run"
    /\ dk.stream = <<>> /\ ~dk.ready
    /\ dk' = IF dk.drain_empty_count + 1 >= DrainLimit
               THEN [dk EXCEPT !.drain_empty_count = @ + 1, !.rdPc = "done",
                               !.queue = Append(@, SENTINEL)]
               ELSE [dk EXCEPT !.drain_empty_count = @ + 1]
    /\ UNCHANGED <<turn, par, tr, es, ck, oq, ts,
                 pty, rt, sb, np, sec, fw, cv, ex, lb, rv>>

\* The consumer takes a chunk, or the sentinel: it then ends, or raises
\* the recorded _exit_error.
DockerConsume ==
    /\ dk.conPc = "running"
    /\ dk.queue # <<>>
    /\ dk' = IF Head(dk.queue) = SENTINEL
               THEN [dk EXCEPT !.queue = Tail(@),
                               !.conPc = IF dk.exit_error = "none" THEN "ended"
                                         ELSE "raised"]
               ELSE [dk EXCEPT !.queue = Tail(@),
                               !.received = Append(@, Head(dk.queue))]
    /\ UNCHANGED <<turn, par, tr, es, ck, oq, ts,
                 pty, rt, sb, np, sec, fw, cv, ex, lb, rv>>

DockerNext ==
    \/ DockerRecv
    \/ DockerProcessExit
    \/ DockerMonitor
    \/ DockerDrain
    \/ DockerConsume

SpecDocker == DockerInit /\ [][DockerNext]_vars

\* =====================================================================
\* Chat event stream (api/endpoints/chat.py, tasks/chat_processor.py)
\*
\* The worker appends entries to the chat's Redis stream; Redis assigns the
\* ids, written "<ms>-<seq>".  A client opens the server-sent event stream
\* with or without a last event id; the endpoint replays the backlog with
\* XRANGE and then reads live with XREAD, while cancel_stream sets the
\* revocation key and publishes on the cancel channel.
\* =====================================================================

\* Entries the worker appends in one run of the model.
MaxLog == 3

XReadCount == 10

IdDigits == <<"0", "1", "2", "3", "4", "5", "6", "7", "8", "9">>

DigitValue(c) == CHOOSE n \in 0..9 : IdDigits[n + 1] = c

IsDigit(c) == \E n \in 0..9 : IdDigits[n + 1] = c

\* The id Redis gives the n-th entry of the stream: "<n>-0".
StreamId(n) == <<IdDigits[n + 1], "-", "0">>

Kinds == {"content", "complete", "error"}

Terminal == {"complete", "error"}

NoId == <<>>

\* Redis reading a stream id: "<ms>-<seq>" or "<ms>", digits only, anything
\* else is rejected ("Invalid stream ID specified as stream command
\* argument").
ParseStreamId(s) ==
    IF Len(s) = 3 /\ IsDigit(s[1]) /\ s[2] = "-" /\ IsDigit(s[3])
    THEN [ok |-> TRUE, ms |-> DigitValue(s[1]), seq |-> DigitValue(s[3])]
    ELSE IF Len(s) = 1 /\ IsDigit(s[1])
    THEN [ok |-> TRUE, ms |-> DigitValue(s[1]), seq |-> 0]
    ELSE [ok |-> FALSE, ms |-> 0, seq |-> 0]

IdLess(a, b) == a.ms < b.ms \/ (a.ms = b.ms /\ a.seq < b.seq)

\* min_id = f"({last_event_id})" if last_event_id else "-"
MinId(last_event_id) ==
    IF last_event_id # NoId THEN <<"(">> \o last_event_id \o <<")">>
    ELSE <<"-">>

\* Redis reading the start of an XRANGE interval: "-" is the smallest id, a
\* leading "(" makes the interval exclusive and the rest must be an id.
ParseRangeStart(s) ==
    IF s = <<"-">> THEN [ok |-> TRUE, excl |-> FALSE, ms |-> 0, seq |-> 0]
    ELSE IF Len(s) > 1 /\ s[1] = "("
    THEN LET p == ParseStreamId(Tail(s))
         IN  [ok |-> p.ok, excl |-> TRUE, ms |-> p.ms, seq |-> p.seq]
    ELSE LET p == ParseStreamId(s)
         IN  [ok |-> p.ok, excl |-> FALSE, ms |-> p.ms, seq |-> p.seq]

\* The entries of log whose id is greater than id (a parsed id).
After(log, id) ==
    SelectSeq(log, LAMBDA e : IdLess(id, ParseStreamId(e.id)))

\* redis.xrange(stream_name, min=min_id, max="+"); an error reply is
\* caught and the backlog is empty.
XRange(log, min_id) ==
    LET r == ParseRangeStart(min_id)
    IN  IF ~r.ok THEN <<>>
        ELSE IF r.excl THEN After(log, r)
        ELSE SelectSeq(log, LAMBDA e : ~IdLess(ParseStreamId(e.id), r))

\* redis.xread({stream_name: last_id}, count=10)
XRead(log, last_id) ==
    LET a == After(log, ParseStreamId(last_id))
    IN  IF Len(a) > XReadCount THEN SubSeq(a, 1, XReadCount) ELSE a

\* The entries of s up to and including the first terminal one.
UpToTerminal(s) ==
    IF \E i \in 1..Len(s) : s[i].kind \in Terminal
    THEN SubSeq(s, 1, CHOOSE i \in 1..Len(s) :
                        /\ s[i].kind \in Terminal
                        /\ \A j \in 1..(i - 1) : s[j].kind \notin Terminal)
    ELSE s

StreamInit ==
    /\ es = [log |-> <<>>, revoked |-> FALSE, published |-> FALSE,
             cancel_event |-> FALSE, pc |-> "none",
             last_event_id |-> NoId, last_id |-> NoId,
             backlog |-> <<>>, snapshot |-> <<>>, replayed |-> <<>>,
             batch |-> <<>>, delivered |-> <<>>, cancelled |-> FALSE,
             atEnd |-> <<>>]
    /\ turn = Idle /\ par = Idle /\ tr = Idle /\ dk = Idle
    /\ ck = Idle /\ oq = Idle /\ ts = Idle
    /\ pty = Idle /\ rt = Idle /\ sb = Idle /\ np = Idle
    /\ sec = Idle /\ fw = Idle
    /\ cv = Idle
    /\ ex = Idle
    /\ lb = Idle
    /\ rv = Idle

\* _publish_stream_entry: the worker appends one entry.
PublishStreamEntry ==
    /\ Len(es.log) < MaxLog
    /\ \E kind \in Kinds :
          es' = [es EXCEPT !.log = Append(@, [id |-> StreamId(Len(@) + 1),
                                              kind |-> kind])]
    /\ UNCHANGED <<turn, par, tr, dk, ck, oq, ts,
                 pty, rt, sb, np, sec, fw, cv, ex, lb, rv>>

\* cancel_stream: the revocation key is set and "cancel" is published; the
\* message reaches the monitor only if it is subscribed.
CancelStream ==
    /\ ~es.revoked
    /\ es' = [es EXCEPT !.revoked = TRUE,
                        !.published = @ \/ es.pc \in {"live", "batch"}]
    /\ UNCHANGED <<turn, par, tr, dk, ck, oq, ts,
                 pty, rt, sb, np, sec, fw, cv, ex, lb, rv>>

\* _cleanup_task_resources: the worker deletes the revocation key.
DeleteRevokedKey ==
    /\ es.revoked
    /\ es' = [es EXCEPT !.revoked = FALSE]
    /\ UNCHANGED <<turn, par, tr, dk, ck, oq, ts,
                 pty, rt, sb, np, sec, fw, cv, ex, lb, rv>>

\* _monitor_stream_cancellation: a message on the channel sets the event.
MonitorStreamCancellation ==
    /\ es.published /\ ~es.cancel_event
    /\ es.pc \in {"live", "batch"}
    /\ es' = [es EXCEPT !.cancel_event = TRUE]
    /\ UNCHANGED <<turn, par, tr, dk, ck, oq, ts,
                 pty, rt, sb, np, sec, fw, cv, ex, lb, rv>>

\* stream_events and the start of _create_event_stream: the client gives no
\* last event id or the id of an entry it has seen; _replay_stream_backlog
\* reads the backlog.
CreateEventStream ==
    /\ es.pc = "none"
    /\ \E l \in {NoId} \cup {es.log[i].id : i \in 1..Len(es.log)} :
          es' = [es EXCEPT !.pc = "replay",
                           !.last_event_id = l, !.last_id = l,
                           !.snapshot = es.log,
                           !.backlog = XRange(es.log, MinId(l))]
    /\ UNCHANGED <<turn, par, tr, dk, ck, oq, ts,
                 pty, rt, sb, np, sec, fw, cv, ex, lb, rv>>

\* One turn of the loop over _replay_stream_backlog, or its end: the live
\* phase starts with the check of the revocation key.
ReplayStreamBacklog ==
    /\ es.pc = "replay"
    /\ IF es.backlog # <<>>
       THEN LET e == Head(es.backlog)
            IN  es' = [es EXCEPT !.backlog = Tail(@),
                                 !.replayed = Append(@, e),
                                 !.delivered = Append(@, e),
                                 !.last_id = e.id,
                                 !.atEnd = es.log,
                                 !.pc = IF e.kind \in Terminal
                                        THEN "done" ELSE "replay"]
       ELSE es' = [es EXCEPT !.last_id = IF @ = NoId THEN <<"0", "-", "0">>
                                         ELSE @,
                             !.cancelled = es.revoked \/ es.cancel_event,
                             !.atEnd = es.log,
                             !.pc = IF es.revoked \/ es.cancel_event
                                    THEN "done" ELSE "live"]
    /\ UNCHANGED <<turn, par, tr, dk, ck, oq, ts,
                 pty, rt, sb, np, sec, fw, cv, ex, lb, rv>>

\* One turn of the loop of _stream_live_redis_events: the cancel event is
\* checked, then XREAD returns the entries after last_id.
StreamLiveRedisEvents ==
    /\ es.pc = "live"
    /\ IF es.cancel_event
       THEN es' = [es EXCEPT !.cancelled = TRUE, !.atEnd = es.log,
                             !.pc = "done"]
       ELSE /\ XRead(es.log, es.last_id) # <<>>
            /\ es' = [es EXCEPT !.batch = XRead(es.log, es.last_id),
                                !.pc = "batch"]
    /\ UNCHANGED <<turn, par, tr, dk, ck, oq, ts,
                 pty, rt, sb, np, sec, fw, cv, ex, lb, rv>>

\* The loop over the messages of one XREAD reply.
LiveYield ==
    /\ es.pc = "batch"
    /\ IF es.batch = <<>>
       THEN es' = [es EXCEPT !.pc = "live"]
       ELSE LET e == Head(es.batch)
            IN  IF e.id = es.last_id
                THEN es' = [es EXCEPT !.batch = Tail(@)]
                ELSE es' = [es EXCEPT !.batch = IF e.kind \in Terminal
                                                THEN <<>> ELSE Tail(@),
                                      !.delivered = Append(@, e),
                                      !.last_id = e.id,
                                      !.atEnd = es.log,
                                      !.pc = IF e.kind \in Terminal
                                             THEN "done" ELSE "batch"]
    /\ UNCHANGED <<turn, par, tr, dk, ck, oq, ts,
                 pty, rt, sb, np, sec, fw, cv, ex, lb, rv>>

StreamNext ==
    \/ PublishStreamEntry
    \/ CancelStream
    \/ DeleteRevokedKey
    \/ MonitorStreamCancellation
    \/ CreateEventStream
    \/ ReplayStreamBacklog
    \/ StreamLiveRedisEvents
    \/ LiveYield

SpecStream == StreamInit /\ [][StreamNext]_vars

\* =====================================================================
\* Checkpoints (services/sandbox_providers/base.py, docker_provider.py,
\* e2b_provider.py, services/sandbox.py)
\*
\* The working tree /home/user of one sandbox, the checkpoint directories
\* under /home/user/.checkpoints, and the shell commands the provider runs
\* in the sandbox: mkdir -p, rsync -a --delete [--link-dest] --exclude=...,
\* rm -rf, and the listing loop with stat -c %Y.
\*
\* ck.now     the sandbox's clock, in seconds
\* ck.root    /home/user: its modification time, whether the directory d
\*            exists, and the inode of each file (0: no such file)
\* ck.ino     the inodes: content and modification time of each
\* ck.base    /home/user/.checkpoints exists
\* ck.cps     the checkpoint directories, by checkpoint id
\* ck.snap    the contents of the working tree when each checkpoint was made
\* ck.created the ids of the existing checkpoints in the order of creation
\* ck.last    the last create or restore and how it ended
\* =====================================================================

\* The retention limit; 20 in app/constants.py.
MAX_CHECKPOINTS_PER_SANDBOX == 3

\* Checkpoint ids (message ids); the shell glob */ lists them in this order.
MaxCheckpoints == 4

MaxTime == 1

\* Changes of the working tree in one run of the model.
MaxMutations == 2

MaxRestores == 1

\* Failing rsync commands in one run of the model; the model lets the
\* rsync fail for the last checkpoint id of a run only.
MaxFailures == 1

CheckpointIds == 1..MaxCheckpoints

\* The ids are message ids, in no relation to the order of creation: the
\* model creates them in the order of the glob or in the opposite order.
NextCheckpointId(order, used) ==
    IF order = "ascending" THEN CHOOSE c \in CheckpointIds \ used :
                                    \A o \in CheckpointIds \ used : c <= o
    ELSE CHOOSE c \in CheckpointIds \ used :
             \A o \in CheckpointIds \ used : c >= o

\* /home/user holds a.txt and may hold the directory d with d/f.py and
\* d/x.log; *.log is one of SANDBOX_RESTORE_EXCLUDE_PATTERNS.
Files == {"a.txt", "d/f.py", "d/x.log"}

Excluded == {"d/x.log"}

InDir == {"d/f.py", "d/x.log"}

Contents == {"x", "y"}

\* What the model writes into a file: a.txt is the file whose content the
\* claims follow.
WriteContents(f) == IF f = "a.txt" THEN Contents ELSE {"x"}

MaxInode == 3 + 2 * MaxCheckpoints

Free == [content |-> "", mtime |-> 0]

NoCheckpoint == [exists |-> FALSE]

EmptyDir(mtime) ==
    [exists |-> TRUE, mtime |-> mtime, d |-> FALSE,
     files |-> [f \in Files |-> 0]]

\* The inodes that some directory entry refers to.
Linked(root, cps) ==
    {root.files[f] : f \in Files}
        \cup UNION {{cps[c].files[f] : f \in Files} :
                        c \in {c \in CheckpointIds : cps[c].exists}}

\* A file system without unreferenced inodes.
Reclaim(ino, root, cps) ==
    LET linked == Linked(root, cps)
    IN  [i \in 1..MaxInode |-> IF i \in linked THEN ino[i] ELSE Free]

NewInode(ino) == CHOOSE i \in 1..MaxInode :
                    /\ ino[i] = Free
                    /\ \A j \in 1..(i - 1) : ino[j] # Free

\* A modification time no file has: every write of a file is told apart
\* from every other by rsync's comparison of size and modification time.
NewMtime(ino) ==
    LET taken == {ino[i].mtime : i \in 1..MaxInode}
    IN  CHOOSE t \in 1..(MaxInode + 1) :
            t \notin taken /\ \A u \in 1..(t - 1) : u \in taken

\* rsync's quick check: same size (all contents here have one size) and
\* same modification time.
Unchanged(ino, i, j) == i # 0 /\ j # 0 /\ ino[i].mtime = ino[j].mtime

\* rsync writes a copy under a temporary name and renames it: the copy is
\* a new inode with the content and the modification time of the source.
CopyFile_Link(ino, i) == [ino |-> ino, inode |-> i]

CopyFile(ino, i) ==
    LET n == NewInode(ino)
    IN  [ino |-> [ino EXCEPT ![n] = ino[i]], inode |-> n]

\* One file of `rsync -a --delete [--link-dest=link] src/ dst/`: st is the
\* file system so far, [ino, dst].  link is a directory or NoCheckpoint.
RsyncFile(st, src, link, f) ==
    LET s == src.files[f]
        t == st.dst.files[f]
    IN  IF f \in Excluded THEN st
        ELSE IF s = 0
        THEN [st EXCEPT !.dst.files[f] = 0]
        ELSE IF Unchanged(st.ino, s, t) THEN st
        ELSE IF link.exists /\ Unchanged(st.ino, s, link.files[f])
        THEN [st EXCEPT !.dst.files[f] = link.files[f]]
        ELSE LET c == CopyFile(st.ino, s)
             IN  [ino |-> c.ino, dst |-> [st.dst EXCEPT !.files[f] = c.inode]]

\* rsync -a --delete [--link-dest=link] --exclude=... src/ dst/: files are
\* copied, linked or deleted; excluded files are neither sent nor deleted;
\* a directory that is not in src is removed unless an excluded file keeps
\* it non-empty; the directories get the modification times of the source.
Rsync(ino, src, dst, link) ==
    LET s1 == RsyncFile([ino |-> ino, dst |-> dst], src, link, "a.txt")
        s2 == RsyncFile(s1, src, link, "d/f.py")
        keep == \E f \in Excluded \cap InDir : dst.files[f] # 0
    IN  [s2 EXCEPT !.dst.d = src.d \/ (dst.d /\ keep),
                   !.dst.mtime = src.mtime]

\* The lines the listing loop prints, in the order of the glob, sorted by
\* created_at with reverse=True: a stable sort, equal times keep the order
\* of the glob.
RECURSIVE SortedByTime(_, _)
SortedByTime(cps, ids) ==
    IF ids = {} THEN <<>>
    ELSE LET first == CHOOSE c \in ids :
                        \A o \in ids \ {c} :
                            \/ cps[c].mtime > cps[o].mtime
                            \/ cps[c].mtime = cps[o].mtime /\ c < o
         IN  <<first>> \o SortedByTime(cps, ids \ {first})

\* list_checkpoints
ListCheckpoints(base, cps) ==
    IF ~base THEN <<>>
    ELSE SortedByTime(cps, {c \in CheckpointIds : cps[c].exists})

\* _get_latest_checkpoint_dir
GetLatestCheckpointDir(base, cps) ==
    LET l == ListCheckpoints(base, cps)
    IN  IF l = <<>> THEN NoCheckpoint ELSE cps[l[1]]

\* _cleanup_old_checkpoints: the ids it removes.
CleanupOldCheckpoints(base, cps) ==
    LET l == ListCheckpoints(base, cps)
    IN  IF Len(l) <= MAX_CHECKPOINTS_PER_SANDBOX THEN {}
        ELSE {l[i] : i \in (MAX_CHECKPOINTS_PER_SANDBOX + 1)..Len(l)}

\* What a directory holds on the paths the exclusion patterns do not cover.
View(ino, dir) ==
    [d |-> dir.d,
     files |-> [f \in Files \ Excluded |->
                  IF dir.files[f] = 0 THEN "" ELSE ino[dir.files[f]].content]]

NoOp == [op |-> "none", id |-> 0, result |-> "none", synced |-> FALSE,
         deleted |-> {}, before |-> <<>>, after |-> 0]

CheckpointInit ==
    /\ \E b \in {"docker", "e2b"}, o \in {"ascending", "descending"} :
          ck = [backend |-> b, order |-> o, now |-> 0,
                root |-> [exists |-> TRUE, mtime |-> 0, d |-> FALSE,
                          files |-> [f \in Files |->
                                       IF f = "a.txt" THEN 1 ELSE 0]],
                ino |-> [i \in 1..MaxInode |->
                           IF i = 1 THEN [content |-> "x", mtime |-> 1]
                           ELSE Free],
                base |-> FALSE,
                cps |-> [i \in CheckpointIds |-> NoCheckpoint],
                snap |-> [i \in CheckpointIds |-> View(<<>>, EmptyDir(0))],
                created |-> <<>>, used |-> {}, clean |-> 0,
                mutations |-> 0, restores |-> 0, failures |-> 0,
                last |-> NoOp]
    /\ turn = Idle /\ par = Idle /\ tr = Idle /\ dk = Idle
    /\ es = Idle /\ oq = Idle /\ ts = Idle
    /\ pty = Idle /\ rt = Idle /\ sb = Idle /\ np = Idle
    /\ sec = Idle /\ fw = Idle
    /\ cv = Idle
    /\ ex = Idle
    /\ lb = Idle
    /\ rv = Idle

\* A second passes in the sandbox.
ClockTick ==
    /\ ck.now < MaxTime
    /\ ck' = [ck EXCEPT !.now = @ + 1]
    /\ UNCHANGED <<turn, par, tr, dk, es, oq, ts,
                 pty, rt, sb, np, sec, fw, cv, ex, lb, rv>>

Mutated(c) == [c EXCEPT !.mutations = @ + 1, !.clean = 0, !.last = NoOp]

\* The agent or the user writes a file of the working tree: an existing
\* file is overwritten in place, a new one is a new entry of its directory.
WriteFile ==
    /\ ck.mutations < MaxMutations
    /\ \E f \in Files : \E c \in WriteContents(f) :
          LET i == ck.root.files[f]
              n == IF i # 0 THEN i ELSE NewInode(ck.ino)
              newEntry == IF f \in InDir THEN ~ck.root.d ELSE i = 0
          IN  ck' = [Mutated(ck) EXCEPT
                       !.ino[n] = [content |-> c, mtime |-> NewMtime(ck.ino)],
                       !.root.files[f] = n,
                       !.root.d = @ \/ f \in InDir,
                       !.root.mtime = IF newEntry THEN ck.now ELSE @]
    /\ UNCHANGED <<turn, par, tr, dk, es, oq, ts,
                 pty, rt, sb, np, sec, fw, cv, ex, lb, rv>>

\* A file of the working tree is deleted.
DeleteFile ==
    /\ ck.mutations < MaxMutations
    /\ \E f \in Files :
          /\ ck.root.files[f] # 0
          /\ LET r == [ck.root EXCEPT !.files[f] = 0,
                                      !.mtime = IF f \in InDir THEN @ ELSE ck.now]
             IN  ck' = [Mutated(ck) EXCEPT !.root = r,
                                           !.ino = Reclaim(ck.ino, r, ck.cps)]
    /\ UNCHANGED <<turn, par, tr, dk, es, oq, ts,
                 pty, rt, sb, np, sec, fw, cv, ex, lb, rv>>

\* The directory d of the working tree is removed with all it holds.
RemoveDir ==
    /\ ck.mutations < MaxMutations
    /\ ck.root.d
    /\ LET r == [ck.root EXCEPT !.d = FALSE, !.mtime = ck.now,
                                !.files = [f \in Files |->
                                             IF f \in InDir THEN 0 ELSE @[f]]]
       IN  ck' = [Mutated(ck) EXCEPT !.root = r,
                                     !.ino = Reclaim(ck.ino, r, ck.cps)]
    /\ UNCHANGED <<turn, par, tr, dk, es, oq, ts,
                 pty, rt, sb, np, sec, fw, cv, ex, lb, rv>>

\* execute_command for the rsync of create_checkpoint.  The command ends
\* well ("ok"), exits with a non-zero code leaving a directory it had begun
\* ("exit"), or does not answer in time ("timeout").  E2B raises for a
\* non-zero exit code; Docker's execute_command returns it in the result.
Raises(backend, outcome) ==
    \/ outcome = "timeout"
    \/ outcome = "exit" /\ backend = "e2b"

\* create_checkpoint(sandbox_id, checkpoint_id), with an id not used before.
CreateCheckpoint ==
    /\ ck.used # CheckpointIds
    /\ \E id \in {NextCheckpointId(ck.order, ck.used)},
          outcome \in IF /\ ck.failures < MaxFailures
                         /\ Cardinality(ck.used) = MaxCheckpoints - 1
                      THEN {"ok", "exit", "timeout"} ELSE {"ok"} :
          LET \* mkdir -p /home/user/.checkpoints
              root == IF ck.base THEN ck.root
                      ELSE [ck.root EXCEPT !.mtime = ck.now]
              prev == GetLatestCheckpointDir(ck.base, ck.cps)
              r == IF outcome = "ok"
                   THEN Rsync(ck.ino, root, EmptyDir(ck.now), prev)
                   ELSE [ino |-> ck.ino, dst |-> EmptyDir(ck.now)]
              raised == Raises(ck.backend, outcome)
              \* except Exception: rm -rf checkpoint_dir; raise
              cps1 == [ck.cps EXCEPT ![id] = IF raised THEN NoCheckpoint
                                             ELSE r.dst]
              gone == IF raised THEN {} ELSE CleanupOldCheckpoints(TRUE, cps1)
              cps2 == [c \in CheckpointIds |->
                         IF c \in gone THEN NoCheckpoint ELSE cps1[c]]
              before == IF raised THEN ck.created ELSE Append(ck.created, id)
          IN  ck' = [ck EXCEPT
                       !.root = root, !.base = TRUE,
                       !.cps = cps2,
                       !.ino = Reclaim(r.ino, root, cps2),
                       !.snap[id] = View(ck.ino, root),
                       !.used = @ \cup {id},
                       !.failures = IF outcome = "ok" THEN @ ELSE @ + 1,
                       !.created = SelectSeq(before, LAMBDA c : c \notin gone),
                       !.clean = IF outcome = "ok" THEN id ELSE 0,
                       !.last = [op |-> "create", id |-> id,
                                 result |-> IF raised THEN "raised"
                                            ELSE "returned",
                                 synced |-> outcome = "ok",
                                 deleted |-> gone, before |-> before,
                                 after |-> ck.clean]]
    /\ UNCHANGED <<turn, par, tr, dk, es, oq, ts,
                 pty, rt, sb, np, sec, fw, cv, ex, lb, rv>>

\* restore_checkpoint(sandbox_id, checkpoint_id)
RestoreCheckpoint ==
    /\ ck.restores < MaxRestores
    /\ \E id \in ck.used :
          IF ~ck.cps[id].exists
          THEN ck' = [ck EXCEPT !.restores = @ + 1,
                                !.last = [NoOp EXCEPT !.op = "restore",
                                                      !.id = id,
                                                      !.result = "raised"]]
          ELSE LET r == Rsync(ck.ino, ck.cps[id], ck.root, NoCheckpoint)
               IN  ck' = [ck EXCEPT
                            !.restores = @ + 1,
                            !.root = r.dst,
                            !.ino = Reclaim(r.ino, r.dst, ck.cps),
                            !.clean = 0,
                            !.last = [NoOp EXCEPT !.op = "restore",
                                                  !.id = id,
                                                  !.result = "returned"]]
    /\ UNCHANGED <<turn, par, tr, dk, es, oq, ts,
                 pty, rt, sb, np, sec, fw, cv, ex, lb, rv>>

CheckpointNext ==
    \/ ClockTick
    \/ WriteFile
    \/ DeleteFile
    \/ RemoveDir
    \/ CreateCheckpoint
    \/ RestoreCheckpoint

SpecCheckpoint == CheckpointInit /\ [][CheckpointNext]_vars

\* =====================================================================
\* Drop-oldest bounded queues (utils/queue.py, services/sandbox.py,
\* api/endpoints/websocket.py)
\*
\* One asyncio.Queue(maxsize) filled by put_with_overflow (the input queue
\* of a terminal session) or by _enqueue_pty_output (the output queue of a
\* PTY), and emptied by drain_queue.
\*
\* oq.items   the queue, oldest item first
\* oq.pushed  the items pushed since the queue was last drained
\* oq.result  what the last push returned
\* =====================================================================

\* maxsize of the queue; PTY_INPUT_QUEUE_SIZE is 1024 and
\* PTY_OUTPUT_QUEUE_SIZE is 512 in app/constants.py.
QueueMaxSize == 3

\* Pushes between two drains.
MaxPushes == 6

Items == {"a", "b"}

\* asyncio.Queue.full()
Full(items, maxsize) == maxsize > 0 /\ Len(items) >= maxsize

\* asyncio.Queue.put_nowait: QueueFull if the queue is full.
PutNowait(items, item, maxsize) ==
    IF Full(items, maxsize) THEN [raised |-> TRUE, items |-> items]
    ELSE [raised |-> FALSE, items |-> Append(items, item)]

\* asyncio.Queue.get_nowait: the oldest item leaves; QueueEmpty if there is
\* none.
GetNowait_Newest(items) ==
    IF items = <<>> THEN [raised |-> TRUE, items |-> items]
    ELSE [raised |-> FALSE, items |-> SubSeq(items, 1, Len(items) - 1)]

GetNowait(items) ==
    IF items = <<>> THEN [raised |-> TRUE, items |-> items]
    ELSE [raised |-> FALSE, items |-> Tail(items)]

\* put_with_overflow(queue, item)
PutWithOverflow(items, item, maxsize) ==
    LET first == PutNowait(items, item, maxsize)
    IN  IF ~first.raised THEN [result |-> "True", items |-> first.items]
        ELSE LET second == PutNowait(GetNowait(items).items, item, maxsize)
             IN  IF ~second.raised
                 THEN [result |-> "True", items |-> second.items]
                 ELSE [result |-> "False", items |-> second.items]

\* _enqueue_pty_output(data, output_queue): the second put_nowait is not
\* guarded, a QueueFull there would leave the handler.
EnqueuePtyOutput(items, item, maxsize) ==
    LET first == PutNowait(items, item, maxsize)
    IN  IF ~first.raised THEN [result |-> "None", items |-> first.items]
        ELSE LET second == PutNowait(GetNowait(items).items, item, maxsize)
             IN  IF ~second.raised
                 THEN [result |-> "None", items |-> second.items]
                 ELSE [result |-> "QueueFull", items |-> second.items]

QueueInit ==
    /\ \E k \in {"input", "output"} :
          oq = [kind |-> k, items |-> <<>>, pushed |-> <<>>,
                result |-> "none"]
    /\ turn = Idle /\ par = Idle /\ tr = Idle /\ dk = Idle
    /\ es = Idle /\ ck = Idle /\ ts = Idle
    /\ pty = Idle /\ rt = Idle /\ sb = Idle /\ np = Idle
    /\ sec = Idle /\ fw = Idle
    /\ cv = Idle
    /\ ex = Idle
    /\ lb = Idle
    /\ rv = Idle

\* TerminalSession.enqueue_input: one websocket message with bytes.
EnqueueInput ==
    /\ oq.kind = "input"
    /\ Len(oq.pushed) < MaxPushes
    /\ \E item \in Items :
          LET r == PutWithOverflow(oq.items, item, QueueMaxSize)
          IN  oq' = [oq EXCEPT !.items = r.items, !.result = r.result,
                               !.pushed = Append(@, item)]
    /\ UNCHANGED <<turn, par, tr, dk, es, ck, ts,
                 pty, rt, sb, np, sec, fw, cv, ex, lb, rv>>

\* The PTY's data callback: one piece of output.
EnqueueOutput ==
    /\ oq.kind = "output"
    /\ Len(oq.pushed) < MaxPushes
    /\ \E item \in Items :
          LET r == EnqueuePtyOutput(oq.items, item, QueueMaxSize)
          IN  oq' = [oq EXCEPT !.items = r.items, !.result = r.result,
                               !.pushed = Append(@, item)]
    /\ UNCHANGED <<turn, par, tr, dk, es, ck, ts,
                 pty, rt, sb, np, sec, fw, cv, ex, lb, rv>>

\* drain_queue: the consumer, once there is an item, takes all there are.
DrainQueue ==
    /\ oq.items # <<>>
    /\ oq' = [oq EXCEPT !.items = <<>>, !.pushed = <<>>, !.result = "none"]
    /\ UNCHANGED <<turn, par, tr, dk, es, ck, ts,
                 pty, rt, sb, np, sec, fw, cv, ex, lb, rv>>

QueueNext ==
    \/ EnqueueInput
    \/ EnqueueOutput
    \/ DrainQueue

SpecQueue == QueueInit /\ [][QueueNext]_vars

\* =====================================================================
\* Terminal websocket (api/endpoints/websocket.py, services/sandbox.py)
\*
\* One terminal connection: the receive loop of terminal_websocket, its
\* TerminalSession, the input and output tasks of each PTY session and
\* the PTY processes of the sandbox.
\*
\* ts.pc           where the handler is: "loop" (awaiting a message),
\*                 "stop_input", "stop_output", "stop_cleanup" (the three
\*                 awaits of stop()), "create" (awaiting
\*                 create_pty_session), "closed"
\* ts.ctx          who called stop(): "start" or "finally"
\* ts.pty_session  TerminalSession.pty_session, 0 for None
\* ts.input_task, ts.output_task      the session whose task it is, 0 for None
\* ts.has_queue, ts.input_queue       TerminalSession.input_queue
\* ts.tracked      the keys of SandboxService._active_pty_sessions
\* ts.alive        the PTY processes running in the sandbox
\* ts.in_state     per session, where its input_worker is: "none", "get"
\*                 (in drain_queue), "send" (in send_stdin), "kill" (in the
\*                 cleanup_pty_session of a failed send, after the session
\*                 was untracked), "cancelled"
\* ts.out_state    per session, where its forward_pty_output is: "none",
\*                 "get", "send", "done", "cancelled"
\* ts.size         rows of the tracked PTY
\* ts.raised       an exception has left stop()
\* =====================================================================

\* init messages of one connection.
MaxInits == 3

\* Binary messages of one connection.
MaxInputs == 2

\* resize messages of one connection.
MaxResizes == 1

\* Sandbox operations that raise during one connection.
MaxFaults == 1

SessionIds == 1 .. MaxInits

\* rows of an init message without rows (websocket.py: data.get("rows") or 24),
\* scaled down.
DefaultRows == 2

Max2(a, b) == IF a >= b THEN a ELSE b

InputLive(s) == ts.in_state[s] \in {"get", "send", "kill"}

OutputLive(s) == ts.out_state[s] \in {"get", "send"}

TermInit ==
    /\ ts = [pc |-> "loop", ctx |-> "none", pty_session |-> 0,
             input_task |-> 0, output_task |-> 0,
             has_queue |-> FALSE, input_queue |-> <<>>,
             tracked |-> {}, alive |-> {},
             in_state |-> [s \in SessionIds |-> "none"],
             out_state |-> [s \in SessionIds |-> "none"],
             size |-> 0, created |-> 0, raised |-> FALSE,
             inits |-> 0, inputs |-> 0, resizes |-> 0, faults |-> 0]
    /\ turn = Idle /\ par = Idle /\ tr = Idle /\ dk = Idle
    /\ es = Idle /\ ck = Idle /\ oq = Idle
    /\ pty = Idle /\ rt = Idle /\ sb = Idle /\ np = Idle
    /\ sec = Idle /\ fw = Idle
    /\ cv = Idle
    /\ ex = Idle
    /\ lb = Idle
    /\ rv = Idle

\* A binary message: TerminalSession.enqueue_input.
ReceiveBytes ==
    /\ ts.pc = "loop"
    /\ ts.inputs < MaxInputs
    /\ ts' = [ts EXCEPT
                !.inputs = @ + 1,
                !.input_queue =
                    IF ts.pty_session = 0 \/ ~ts.has_queue THEN @
                    ELSE PutWithOverflow(@, "a", QueueMaxSize).items]
    /\ UNCHANGED <<turn, par, tr, dk, es, ck, oq,
                 pty, rt, sb, np, sec, fw, cv, ex, lb, rv>>

\* {"type": "init"}: TerminalSession.start begins with stop().
ReceiveInit ==
    /\ ts.pc = "loop"
    /\ ts.inits < MaxInits
    /\ ts' = [ts EXCEPT !.inits = @ + 1, !.pc = "stop_input",
                        !.ctx = "start"]
    /\ UNCHANGED <<turn, par, tr, dk, es, ck, oq,
                 pty, rt, sb, np, sec, fw, cv, ex, lb, rv>>

\* {"type": "resize"}: TerminalSession.resize and resize_pty_session; a
\* failed resize is logged and leaves the size.
ReceiveResize ==
    /\ ts.pc = "loop"
    /\ ts.resizes < MaxResizes
    /\ \E rows \in {0, 3}, ok \in BOOLEAN :
          ts' = [ts EXCEPT
                   !.resizes = @ + 1,
                   !.size = IF /\ ts.pty_session # 0
                               /\ ts.pty_session \in ts.tracked
                               /\ ok
                            THEN Max2(rows, 1) ELSE @]
    /\ UNCHANGED <<turn, par, tr, dk, es, ck, oq,
                 pty, rt, sb, np, sec, fw, cv, ex, lb, rv>>

\* {"type": "close"}, a disconnect or an error of the loop: the finally
\* block calls stop().
ReceiveClose ==
    /\ ts.pc = "loop"
    /\ ts' = [ts EXCEPT !.pc = "stop_input", !.ctx = "finally"]
    /\ UNCHANGED <<turn, par, tr, dk, es, ck, oq,
                 pty, rt, sb, np, sec, fw, cv, ex, lb, rv>>

\* Where the handler goes when an exception leaves stop(): out of start()
\* into the finally block, which calls stop() again, or out of the finally
\* block.
AfterStopRaised == IF ts.ctx = "start" THEN "stop_input" ELSE "closed"

\* stop(), first part: cancel the input task and await it; the
\* CancelledError is raised at the await the task is at and suppressed. A
\* task that has ended with another exception raises it here, and
\* input_task stays set. A kill that is interrupted may or may not have
\* reached the process.
StopInputTask ==
    /\ ts.pc = "stop_input"
    /\ LET s == ts.input_task
       IN  IF s # 0 /\ ts.in_state[s] = "failed"
           THEN ts' = [ts EXCEPT !.raised = TRUE, !.pc = AfterStopRaised,
                                 !.ctx = "finally"]
           ELSE \E killed \in BOOLEAN :
              /\ killed => (s # 0 /\ ts.in_state[s] = "kill")
              /\ ts' = [ts EXCEPT
                          !.in_state =
                              IF s # 0 /\ InputLive(s)
                              THEN [@ EXCEPT ![s] = "cancelled"] ELSE @,
                          !.alive = IF killed THEN @ \ {s} ELSE @,
                          !.input_task = 0,
                          !.has_queue = FALSE,
                          !.input_queue = <<>>,
                          !.pc = "stop_output"]
    /\ UNCHANGED <<turn, par, tr, dk, es, ck, oq,
                 pty, rt, sb, np, sec, fw, cv, ex, lb, rv>>

\* stop(), second part: cancel the output task and await it; a task that
\* has returned is left as it is, one that has ended with an exception
\* raises it here.
StopOutputTask ==
    /\ ts.pc = "stop_output"
    /\ LET s == ts.output_task
       IN  IF s # 0 /\ ts.out_state[s] = "failed"
           THEN ts' = [ts EXCEPT !.raised = TRUE, !.pc = AfterStopRaised,
                                 !.ctx = "finally"]
           ELSE ts' = [ts EXCEPT
                    !.out_state =
                        IF s # 0 /\ OutputLive(s)
                        THEN [@ EXCEPT ![s] = "cancelled"] ELSE @,
                    !.output_task = 0,
                    !.pc = "stop_cleanup"]
    /\ UNCHANGED <<turn, par, tr, dk, es, ck, oq,
                 pty, rt, sb, np, sec, fw, cv, ex, lb, rv>>

\* cleanup_pty_session(session): nothing if the session is not tracked;
\* else it is untracked and its PTY killed, a failed kill being logged and
\* not raised.
CleanupPtySession_Raising(s, kill_ok) ==
    IF s \notin ts.tracked
    THEN [tracked |-> ts.tracked, alive |-> ts.alive, raised |-> FALSE]
    ELSE [tracked |-> ts.tracked \ {s},
          alive |-> IF kill_ok THEN ts.alive \ {s} ELSE ts.alive,
          raised |-> ~kill_ok]

CleanupPtySession(s, kill_ok) ==
    IF s \notin ts.tracked
    THEN [tracked |-> ts.tracked, alive |-> ts.alive, raised |-> FALSE]
    ELSE [tracked |-> ts.tracked \ {s},
          alive |-> IF kill_ok THEN ts.alive \ {s} ELSE ts.alive,
          raised |-> FALSE]

\* stop(), third part: cleanup_pty_session of the current session; if it
\* raised, pty_session would stay set.
StopCleanupPty ==
    /\ ts.pc = "stop_cleanup"
    /\ \E kill_ok \in BOOLEAN :
          /\ ~kill_ok => /\ ts.faults < MaxFaults
                         /\ ts.pty_session \in ts.tracked
          /\ LET c == IF ts.pty_session = 0
                      THEN [tracked |-> ts.tracked, alive |-> ts.alive,
                            raised |-> FALSE]
                      ELSE CleanupPtySession(ts.pty_session, kill_ok)
             IN  ts' = [ts EXCEPT
                          !.tracked = c.tracked,
                          !.alive = c.alive,
                          !.faults = IF kill_ok THEN @ ELSE @ + 1,
                          !.raised = @ \/ c.raised,
                          !.pty_session = IF c.raised THEN @ ELSE 0,
                          !.ctx = IF c.raised THEN "finally" ELSE @,
                          !.pc = IF c.raised THEN AfterStopRaised
                                 ELSE IF ts.ctx = "start" THEN "create"
                                 ELSE "closed"]
    /\ UNCHANGED <<turn, par, tr, dk, es, ck, oq,
                 pty, rt, sb, np, sec, fw, cv, ex, lb, rv>>

\* start(), after stop(): create_pty_session, then the queue and the two
\* tasks. If create_pty_session raises, the loop ends and the finally
\* block calls stop().
CreatePtySession ==
    /\ ts.pc = "create"
    /\ \/ LET s == ts.created + 1
          IN  ts' = [ts EXCEPT
                       !.created = s,
                       !.tracked = @ \cup {s},
                       !.alive = @ \cup {s},
                       !.size = DefaultRows,
                       !.pty_session = s,
                       !.has_queue = TRUE,
                       !.input_queue = <<>>,
                       !.input_task = s,
                       !.in_state = [@ EXCEPT ![s] = "get"],
                       !.output_task = s,
                       !.out_state = [@ EXCEPT ![s] = "get"],
                       !.pc = "loop"]
       \/ /\ ts.faults < MaxFaults
          /\ ts' = [ts EXCEPT !.faults = @ + 1, !.pc = "stop_input",
                              !.ctx = "finally"]
    /\ UNCHANGED <<turn, par, tr, dk, es, ck, oq,
                 pty, rt, sb, np, sec, fw, cv, ex, lb, rv>>

\* input_worker: drain_queue returns what is queued; send_pty_input returns
\* at once if the session is not tracked, else it awaits send_stdin.
InputWorkerDrain ==
    /\ \E s \in SessionIds :
          /\ ts.in_state[s] = "get"
          /\ ts.input_task = s /\ ts.has_queue /\ ts.input_queue # <<>>
          /\ ts' = [ts EXCEPT
                      !.input_queue = <<>>,
                      !.in_state = IF s \in ts.tracked
                                   THEN [@ EXCEPT ![s] = "send"] ELSE @]
    /\ UNCHANGED <<turn, par, tr, dk, es, ck, oq,
                 pty, rt, sb, np, sec, fw, cv, ex, lb, rv>>

\* send_pty_input: send_stdin returns, or it raises and the handler calls
\* cleanup_pty_session, which untracks the session and awaits the kill.
SendPtyInput ==
    /\ \E s \in SessionIds :
          /\ ts.in_state[s] = "send"
          /\ \/ ts' = [ts EXCEPT !.in_state = [@ EXCEPT ![s] = "get"]]
             \/ /\ ts.faults < MaxFaults
                /\ ts' = [ts EXCEPT
                            !.faults = @ + 1,
                            !.tracked = @ \ {s},
                            !.in_state =
                                IF s \in ts.tracked
                                THEN [@ EXCEPT ![s] = "kill"]
                                ELSE [@ EXCEPT ![s] = "get"]]
    /\ UNCHANGED <<turn, par, tr, dk, es, ck, oq,
                 pty, rt, sb, np, sec, fw, cv, ex, lb, rv>>

\* The kill awaited by the cleanup_pty_session of the input worker ends.
InputWorkerKill ==
    /\ \E s \in SessionIds :
          /\ ts.in_state[s] = "kill"
          /\ ts' = [ts EXCEPT
                      !.alive = @ \ {s},
                      !.in_state = [@ EXCEPT ![s] = "get"]]
    /\ UNCHANGED <<turn, par, tr, dk, es, ck, oq,
                 pty, rt, sb, np, sec, fw, cv, ex, lb, rv>>

\* forward_pty_output: output of the PTY is taken from its queue.
ForwardPtyOutput ==
    /\ \E s \in SessionIds :
          /\ ts.out_state[s] = "get"
          /\ s \in ts.alive
          /\ ts' = [ts EXCEPT !.out_state = [@ EXCEPT ![s] = "send"]]
    /\ UNCHANGED <<turn, par, tr, dk, es, ck, oq,
                 pty, rt, sb, np, sec, fw, cv, ex, lb, rv>>

\* forward_pty_output: send_text returns, or it raises and the task ends.
SendText ==
    /\ \E s \in SessionIds :
          /\ ts.out_state[s] = "send"
          /\ \/ ts' = [ts EXCEPT !.out_state = [@ EXCEPT ![s] = "get"]]
             \/ /\ ts.faults < MaxFaults
                /\ ts' = [ts EXCEPT
                            !.faults = @ + 1,
                            !.out_state = [@ EXCEPT ![s] = "done"]]
    /\ UNCHANGED <<turn, par, tr, dk, es, ck, oq,
                 pty, rt, sb, np, sec, fw, cv, ex, lb, rv>>

\* The shell of a PTY exits.
PtyExit ==
    /\ \E s \in ts.alive :
          ts' = [ts EXCEPT !.alive = @ \ {s}]
    /\ UNCHANGED <<turn, par, tr, dk, es, ck, oq,
                 pty, rt, sb, np, sec, fw, cv, ex, lb, rv>>

TermNext ==
    \/ ReceiveBytes
    \/ ReceiveInit
    \/ ReceiveResize
    \/ ReceiveClose
    \/ StopInputTask
    \/ StopOutputTask
    \/ StopCleanupPty
    \/ CreatePtySession
    \/ InputWorkerDrain
    \/ SendPtyInput
    \/ InputWorkerKill
    \/ ForwardPtyOutput
    \/ SendText
    \/ PtyExit

SpecTerminal == TermInit /\ [][TermNext]_vars

\* The event loop runs the handler and the tasks whenever they can go on
\* and the sandbox answers every call: the awaits of stop() return,
\* create_pty_session returns or raises, and a send or a kill under way
\* ends.  Messages of the client and the exit of a shell are not forced.
TermFairness ==
    /\ WF_vars(StopInputTask) /\ WF_vars(StopOutputTask)
    /\ WF_vars(StopCleanupPty) /\ WF_vars(CreatePtySession)
    /\ WF_vars(SendPtyInput) /\ WF_vars(InputWorkerKill)
    /\ WF_vars(SendText)

SpecTerminalLive == SpecTerminal /\ TermFairness

\* =====================================================================
\* PTY operations of a provider (sandbox_providers/base.py,
\* docker_provider.py, e2b_provider.py)
\*
\* One provider, one sandbox, its registry _pty_sessions, and the tasks
\* that call create_pty, send_pty_input, resize_pty and kill_pty on it.
\*
\* pty.backend    "docker" or "e2b"
\* pty.sessions   per session id: st ("none", "tracked", "gone"), open (the
\*                exec socket is open / the PTY process is there), sandbox
\*                (the session holds a sandbox handle), size (what the
\*                backend was last told)
\* pty.ops        per calling task: kind of the call it is in, its target
\*                s, where it is (pc), how the target was when it called
\*                (at_call: "tracked", "cleaning", "untracked"), rows, cols
\* pty.forwarded  the sizes of the resizes sent to the backend
\* pty.calls      calls made so far
\* =====================================================================

\* Session ids of one sandbox.
MaxPtys == 1

\* Tasks calling the provider at the same time.
MaxTasks == 2

\* Calls of send_pty_input, resize_pty and kill_pty.
MaxCalls == 2

PtyIds == 1 .. MaxPtys

Tasks == 1 .. MaxTasks

\* rows and cols of a request.
Sizes == {<<0, 0>>, <<-1, 3>>, <<2, 2>>}

NoOpCall == [kind |-> "none", s |-> 0, pc |-> "idle", at_call |-> "none",
             rows |-> 0, cols |-> 0]

\* max(rows, 1), max(cols, 1)
Clamp_Raw(size) == size

Clamp(size) == <<Max2(size[1], 1), Max2(size[2], 1)>>

\* _get_pty_session
GetPtySession(s) == pty.sessions[s].st = "tracked"

\* The sessions a kill_pty is at work on.
Cleaning ==
    {pty.ops[o].s : o \in {t \in Tasks : pty.ops[t].pc \in {"kill", "kill_own"}}}

AtCall(s) == IF ~GetPtySession(s) THEN "untracked"
             ELSE IF s \in Cleaning THEN "cleaning" ELSE "tracked"

\* A call has ended: what it was stays on record until the task calls again.
Ended(o, how) == [pty.ops[o] EXCEPT !.pc = how]

PtyInit ==
    /\ \E b \in {"docker", "e2b"} :
          pty = [backend |-> b,
                 sessions |-> [s \in PtyIds |->
                                 [st |-> "none", open |-> FALSE,
                                  sandbox |-> FALSE, size |-> <<0, 0>>]],
                 ops |-> [o \in Tasks |-> NoOpCall],
                 forwarded |-> {},
                 calls |-> 0]
    /\ turn = Idle /\ par = Idle /\ tr = Idle /\ dk = Idle
    /\ es = Idle /\ ck = Idle /\ oq = Idle /\ ts = Idle
    /\ rt = Idle /\ sb = Idle /\ np = Idle /\ sec = Idle /\ fw = Idle
    /\ cv = Idle
    /\ ex = Idle
    /\ lb = Idle
    /\ rv = Idle

\* create_pty: the session is registered; the Docker provider then calls
\* resize_pty if rows > 0 and cols > 0, the E2B SDK is given the size with
\* the creation.
CreatePty ==
    /\ \E s \in PtyIds, size \in Sizes :
          /\ pty.sessions[s].st = "none"
          /\ \A p \in PtyIds : p < s => pty.sessions[p].st # "none"
          /\ LET resized == /\ pty.backend = "docker"
                            /\ size[1] > 0 /\ size[2] > 0
             IN  pty' = [pty EXCEPT
                           !.sessions[s] =
                               [st |-> "tracked", open |-> TRUE,
                                sandbox |-> TRUE,
                                size |-> IF resized THEN Clamp(size)
                                         ELSE size],
                           !.forwarded = IF resized THEN @ \cup {Clamp(size)}
                                         ELSE @]
    /\ UNCHANGED <<turn, par, tr, dk, es, ck, oq, ts,
                 rt, sb, np, sec, fw, cv, ex, lb, rv>>

\* send_pty_input is called: nothing for a session that is not tracked;
\* else the send is handed to the executor (Docker) or to the SDK (E2B).
CallSendPtyInput ==
    /\ pty.calls < MaxCalls
    /\ \E o \in Tasks, s \in PtyIds :
          /\ pty.ops[o].pc \in {"idle", "returned", "raised"}
          /\ pty' = [pty EXCEPT
                       !.calls = @ + 1,
                       !.ops[o] = [kind |-> "send", s |-> s,
                                   pc |-> IF GetPtySession(s) THEN "send"
                                          ELSE "returned",
                                   at_call |-> AtCall(s),
                                   rows |-> 0, cols |-> 0]]
    /\ UNCHANGED <<turn, par, tr, dk, es, ck, oq, ts,
                 rt, sb, np, sec, fw, cv, ex, lb, rv>>

\* The send ends. Docker: socket._sock.send runs in the executor and what
\* it raises leaves send_pty_input; on a closed socket it raises. E2B: a
\* failed send_stdin is logged, the handle dropped and kill_pty called.
SendPtyInputEnds ==
    /\ \E o \in Tasks :
          /\ pty.ops[o].kind = "send" /\ pty.ops[o].pc = "send"
          /\ LET s == pty.ops[o].s
             IN  IF pty.backend = "docker"
                 THEN pty' = [pty EXCEPT
                                !.ops[o] = Ended(o, IF pty.sessions[s].open
                                                    THEN "returned"
                                                    ELSE "raised")]
                 ELSE IF pty.sessions[s].open
                 THEN pty' = [pty EXCEPT !.ops[o] = Ended(o, "returned")]
                 ELSE IF GetPtySession(s)
                 THEN pty' = [pty EXCEPT
                                !.sessions[s].sandbox = FALSE,
                                !.sessions[s].st = "gone",
                                !.ops[o] = Ended(o, "kill_own")]
                 ELSE pty' = [pty EXCEPT
                                !.sessions[s].sandbox = FALSE,
                                !.ops[o] = Ended(o, "returned")]
    /\ UNCHANGED <<turn, par, tr, dk, es, ck, oq, ts,
                 rt, sb, np, sec, fw, cv, ex, lb, rv>>

\* resize_pty is called: nothing for a session that is not tracked.
CallResizePty ==
    /\ pty.calls < MaxCalls
    /\ \E o \in Tasks, s \in PtyIds, size \in Sizes :
          /\ pty.ops[o].pc \in {"idle", "returned", "raised"}
          /\ pty' = [pty EXCEPT
                       !.calls = @ + 1,
                       !.ops[o] = [kind |-> "resize", s |-> s,
                                   pc |-> IF GetPtySession(s) THEN "resize"
                                          ELSE "returned",
                                   at_call |-> AtCall(s),
                                   rows |-> size[1], cols |-> size[2]]]
    /\ UNCHANGED <<turn, par, tr, dk, es, ck, oq, ts,
                 rt, sb, np, sec, fw, cv, ex, lb, rv>>

\* The resize ends: the backend is told the clamped size. Docker:
\* exec_resize on an exec whose socket was closed may be refused, and
\* what it raises leaves resize_pty. E2B: a failure is logged and the
\* handle dropped.
ResizePtyEnds ==
    /\ \E o \in Tasks, refused \in BOOLEAN :
          /\ pty.ops[o].kind = "resize" /\ pty.ops[o].pc = "resize"
          /\ LET s == pty.ops[o].s
                 size == Clamp(<<pty.ops[o].rows, pty.ops[o].cols>>)
             IN  /\ refused => ~pty.sessions[s].open
                 /\ pty' = [pty EXCEPT
                              !.forwarded = @ \cup {size},
                              !.sessions[s].size =
                                  IF refused THEN @ ELSE size,
                              !.sessions[s].sandbox =
                                  IF refused /\ pty.backend = "e2b"
                                  THEN FALSE ELSE @,
                              !.ops[o] =
                                  Ended(o, IF refused /\ pty.backend = "docker"
                                           THEN "raised" ELSE "returned")]
    /\ UNCHANGED <<turn, par, tr, dk, es, ck, oq, ts,
                 rt, sb, np, sec, fw, cv, ex, lb, rv>>

\* kill_pty is called: nothing for a session that is not tracked. Docker
\* cancels the reader task and awaits it, the session still tracked; E2B
\* untracks the session and awaits the kill.
CallKillPty ==
    /\ pty.calls < MaxCalls
    /\ \E o \in Tasks, s \in PtyIds :
          /\ pty.ops[o].pc \in {"idle", "returned", "raised"}
          /\ pty' = [pty EXCEPT
                       !.calls = @ + 1,
                       !.sessions[s].st =
                           IF GetPtySession(s) /\ pty.backend = "e2b"
                           THEN "gone" ELSE @,
                       !.ops[o] = [kind |-> "kill", s |-> s,
                                   pc |-> IF GetPtySession(s) THEN "kill"
                                          ELSE "returned",
                                   at_call |-> AtCall(s),
                                   rows |-> 0, cols |-> 0]]
    /\ UNCHANGED <<turn, par, tr, dk, es, ck, oq, ts,
                 rt, sb, np, sec, fw, cv, ex, lb, rv>>

\* The kill ends. Docker: the reader has ended, the socket is closed, the
\* session untracked (an entry already removed is logged). E2B: pty.kill
\* has returned or failed, a failure being logged.
KillPtyEnds ==
    /\ \E o \in Tasks :
          /\ pty.ops[o].pc \in {"kill", "kill_own"}
          /\ LET s == pty.ops[o].s
             IN  pty' = [pty EXCEPT
                           !.sessions[s].open = FALSE,
                           !.sessions[s].st = "gone",
                           !.ops[o] = Ended(o, "returned")]
    /\ UNCHANGED <<turn, par, tr, dk, es, ck, oq, ts,
                 rt, sb, np, sec, fw, cv, ex, lb, rv>>

\* The shell of a PTY exits.
PtyProcessExit ==
    /\ pty.backend = "e2b"
    /\ \E s \in PtyIds :
          /\ pty.sessions[s].st = "tracked" /\ pty.sessions[s].open
          /\ pty' = [pty EXCEPT !.sessions[s].open = FALSE]
    /\ UNCHANGED <<turn, par, tr, dk, es, ck, oq, ts,
                 rt, sb, np, sec, fw, cv, ex, lb, rv>>

PtyNext ==
    \/ CreatePty
    \/ CallSendPtyInput
    \/ SendPtyInputEnds
    \/ CallResizePty
    \/ ResizePtyEnds
    \/ CallKillPty
    \/ KillPtyEnds
    \/ PtyProcessExit

SpecPty == PtyInit /\ [][PtyNext]_vars

\* =====================================================================
\* Retried backend operations (sandbox_providers/e2b_provider.py)
\*
\* One call of _retry_operation: tenacity's AsyncRetrying with
\* stop_after_attempt(MAX_RETRIES), retry_if_exception(is_retryable_error),
\* wait_exponential and reraise.
\*
\* rt.pc       "attempt" (the operation is running), "sleep" (waiting
\*             before the next attempt), "returned", "raised"
\* rt.tried    the outcome of every attempt so far
\* rt.waits    the waits so far, in seconds
\* =====================================================================

MAX_RETRIES == 3

RETRY_BASE_DELAY == 1

RetryMaxWait == 10

\* What an attempt can end with: success, or an exception with the HTTP
\* status of the backend's answer (0 if there was none) and its message.
Ok == [ok |-> TRUE, status |-> 200, text |-> <<>>]

Failures ==
    { [ok |-> FALSE, status |-> 401, text |-> <<"4", "0", "1", ":", "u">>],
      [ok |-> FALSE, status |-> 403, text |-> <<"e", " ", "4", "0", "3">>],
      [ok |-> FALSE, status |-> 500, text |-> <<"5", "0", "0">>],
      [ok |-> FALSE, status |-> 429, text |-> <<"4", "2", "9">>],
      [ok |-> FALSE, status |-> 404, text |-> <<"i", "4", "0", "3", "x">>],
      [ok |-> FALSE, status |-> 0, text |-> <<"t", "i", "m", "e">>],
      [ok |-> FALSE, status |-> 0, text |-> <<>>] }

\* pat in text
Contains(text, pat) ==
    \E i \in 1 .. (Len(text) - Len(pat) + 1) :
        SubSeq(text, i, i + Len(pat) - 1) = pat

\* is_retryable_error(exception)
IsRetryableError_Always(e) == TRUE

IsRetryableError(e) ==
    ~(Contains(e.text, <<"4", "0", "1">>) \/ Contains(e.text, <<"4", "0", "3">>))

\* stop_after_attempt(MAX_RETRIES)
StopAfterAttempt(n) == n >= MAX_RETRIES

Min2(a, b) == IF a <= b THEN a ELSE b

\* wait_exponential(multiplier, min, max) before attempt n + 1
WaitExponential(n) ==
    Max2(RETRY_BASE_DELAY, Min2(RETRY_BASE_DELAY * 2 ^ (n - 1), RetryMaxWait))

RetryInit ==
    /\ rt = [pc |-> "attempt", tried |-> <<>>, waits |-> <<>>]
    /\ turn = Idle /\ par = Idle /\ tr = Idle /\ dk = Idle
    /\ es = Idle /\ ck = Idle /\ oq = Idle /\ ts = Idle
    /\ pty = Idle /\ sb = Idle /\ np = Idle /\ sec = Idle /\ fw = Idle
    /\ cv = Idle
    /\ ex = Idle
    /\ lb = Idle
    /\ rv = Idle

\* One attempt ends: a result is returned; an exception is raised again
\* if it is not retryable or the attempts are used up; else tenacity
\* sleeps.
RetryAttempt ==
    /\ rt.pc = "attempt"
    /\ \E outcome \in {Ok} \cup Failures :
          LET n == Len(rt.tried) + 1
          IN  rt' = [rt EXCEPT
                       !.tried = Append(@, outcome),
                       !.pc = IF outcome.ok THEN "returned"
                              ELSE IF ~IsRetryableError(outcome) THEN "raised"
                              ELSE IF StopAfterAttempt(n) THEN "raised"
                              ELSE "sleep",
                       !.waits = IF /\ ~outcome.ok
                                    /\ IsRetryableError(outcome)
                                    /\ ~StopAfterAttempt(n)
                                 THEN Append(@, WaitExponential(n)) ELSE @]
    /\ UNCHANGED <<turn, par, tr, dk, es, ck, oq, ts,
                 pty, sb, np, sec, fw, cv, ex, lb, rv>>

\* The wait is over, the operation is called again.
RetrySleep ==
    /\ rt.pc = "sleep"
    /\ rt' = [rt EXCEPT !.pc = "attempt"]
    /\ UNCHANGED <<turn, par, tr, dk, es, ck, oq, ts,
                 pty, sb, np, sec, fw, cv, ex, lb, rv>>

RetryNext ==
    \/ RetryAttempt
    \/ RetrySleep

SpecRetry == RetryInit /\ [][RetryNext]_vars

\* =====================================================================
\* Sandbox handles of a provider (sandbox_providers/e2b_provider.py,
\* docker_provider.py)
\*
\* One provider, one sandbox id, the provider's cache of handles
\* (_active_sandboxes, _containers) and the tasks that call _get_sandbox /
\* connect_sandbox and delete_sandbox for that id.
\*
\* sb.backend   "docker" or "e2b"
\* sb.exists    the backend has the sandbox
\* sb.live      the handles through which the sandbox answers as running
\* sb.cache     the cached handle, 0 for none
\* sb.handles   handles made so far
\* sb.calls     per task: kind ("get", "delete"), pc, handle (the local
\*              variable), found_dead (its liveness check said no), result
\* sb.made      calls made so far
\* sb.deletes   calls of delete_sandbox so far
\* sb.expired   liveness losses so far
\* =====================================================================

\* Calls of one run.
MaxSandboxCalls == 3

\* Times the sandbox stops answering through its handles.
MaxExpiries == 1

NoCall == [kind |-> "none", pc |-> "idle", handle |-> 0,
           found_dead |-> FALSE, result |-> "none"]

CallOver(o) == sb.calls[o].pc \in {"idle", "returned", "raised"}

SandboxInit ==
    /\ \E b \in {"docker", "e2b"}, cached \in BOOLEAN :
          sb = [backend |-> b, exists |-> TRUE, live |-> {1},
                cache |-> IF cached THEN 1 ELSE 0, handles |-> 1,
                calls |-> [o \in Tasks |-> NoCall],
                made |-> 0, deletes |-> 0, expired |-> 0]
    /\ turn = Idle /\ par = Idle /\ tr = Idle /\ dk = Idle
    /\ es = Idle /\ ck = Idle /\ oq = Idle /\ ts = Idle
    /\ pty = Idle /\ rt = Idle /\ np = Idle /\ sec = Idle /\ fw = Idle
    /\ cv = Idle
    /\ ex = Idle
    /\ lb = Idle
    /\ rv = Idle

\* The sandbox is paused or stopped: no handle finds it running.
SandboxExpires ==
    /\ sb.expired < MaxExpiries
    /\ sb.live # {}
    /\ sb' = [sb EXCEPT !.live = {}, !.expired = @ + 1]
    /\ UNCHANGED <<turn, par, tr, dk, es, ck, oq, ts,
                 pty, rt, np, sec, fw, cv, ex, lb, rv>>

\* _get_sandbox / connect_sandbox is called: with a cached handle it
\* awaits the liveness check, without one it awaits the connect.
CallGetSandbox ==
    /\ sb.made < MaxSandboxCalls
    /\ \E o \in Tasks :
          /\ CallOver(o)
          /\ sb' = [sb EXCEPT
                      !.made = @ + 1,
                      !.calls[o] = [kind |-> "get",
                                    pc |-> IF sb.cache # 0 THEN "is_running"
                                           ELSE "connect",
                                    handle |-> sb.cache,
                                    found_dead |-> FALSE,
                                    result |-> "none"]]
    /\ UNCHANGED <<turn, par, tr, dk, es, ck, oq, ts,
                 pty, rt, np, sec, fw, cv, ex, lb, rv>>

\* `del cache[sandbox_id]`: KeyError if there is no entry.
DelCached(cache) ==
    IF cache = 0 THEN [raised |-> TRUE, cache |-> cache]
    ELSE [raised |-> FALSE, cache |-> 0]

\* The liveness check of the cached handle ends: a running sandbox is
\* returned; else the entry is deleted from the cache and the connect
\* awaited.
IsRunningEnds ==
    /\ \E o \in Tasks :
          /\ sb.calls[o].pc = "is_running"
          /\ IF sb.calls[o].handle \in sb.live
             THEN sb' = [sb EXCEPT !.calls[o].pc = "returned",
                                   !.calls[o].result = "handle"]
             ELSE LET d == DelCached(sb.cache)
                  IN  sb' = [sb EXCEPT
                               !.cache = d.cache,
                               !.calls[o].found_dead = TRUE,
                               !.calls[o].pc = IF d.raised THEN "raised"
                                               ELSE "connect",
                               !.calls[o].result = IF d.raised THEN "KeyError"
                                                   ELSE @]
    /\ UNCHANGED <<turn, par, tr, dk, es, ck, oq, ts,
                 pty, rt, np, sec, fw, cv, ex, lb, rv>>

\* The connect ends: a new handle is cached and returned; connecting
\* resumes an E2B sandbox, while the Docker provider caches the container
\* it finds, running or not. For a sandbox that is not there
\* AsyncSandbox.connect raises and connect_sandbox of the Docker provider
\* returns False.
ConnectEnds ==
    /\ \E o \in Tasks :
          /\ sb.calls[o].pc = "connect"
          /\ IF sb.exists
             THEN LET h == sb.handles + 1
                  IN  sb' = [sb EXCEPT
                               !.handles = h,
                               !.live = IF sb.backend = "e2b"
                                        THEN @ \cup {h} ELSE @,
                               !.cache = h,
                               !.calls[o].handle = h,
                               !.calls[o].pc = "returned",
                               !.calls[o].result = "handle"]
             ELSE sb' = [sb EXCEPT
                           !.calls[o].pc = IF sb.backend = "e2b"
                                           THEN "raised" ELSE "returned",
                           !.calls[o].result = "not_found"]
    /\ UNCHANGED <<turn, par, tr, dk, es, ck, oq, ts,
                 pty, rt, np, sec, fw, cv, ex, lb, rv>>

\* delete_sandbox is called: with a cached handle it awaits the kill,
\* without one it awaits a connect first.
CallDeleteSandbox ==
    /\ sb.made < MaxSandboxCalls
    /\ \E o \in Tasks :
          /\ CallOver(o)
          /\ sb' = [sb EXCEPT
                      !.made = @ + 1,
                      !.deletes = @ + 1,
                      !.calls[o] = [kind |-> "delete",
                                    pc |-> IF sb.cache # 0 THEN "kill"
                                           ELSE "find",
                                    handle |-> sb.cache,
                                    found_dead |-> FALSE,
                                    result |-> "none"]]
    /\ UNCHANGED <<turn, par, tr, dk, es, ck, oq, ts,
                 pty, rt, np, sec, fw, cv, ex, lb, rv>>

\* delete_sandbox: the connect (E2B) or the search by name (Docker) ends;
\* a failure is logged and delete_sandbox returns.
DeleteFindEnds ==
    /\ \E o \in Tasks :
          /\ sb.calls[o].pc = "find"
          /\ IF sb.exists
             THEN LET h == sb.handles + 1
                  IN  sb' = [sb EXCEPT
                               !.handles = h,
                               !.live = @ \cup {h},
                               !.calls[o].handle = h,
                               !.calls[o].pc = "kill"]
             ELSE sb' = [sb EXCEPT !.calls[o].pc = "returned",
                                   !.calls[o].result = "not_found"]
    /\ UNCHANGED <<turn, par, tr, dk, es, ck, oq, ts,
                 pty, rt, np, sec, fw, cv, ex, lb, rv>>

\* What a failed kill does to delete_sandbox: _destroy_container of the
\* Docker provider catches every exception; the E2B provider awaits
\* _retry_operation(sandbox.kill) outside any try.
KillFailureRaises(backend) == backend = "e2b"

\* delete_sandbox: the kill ends. The sandbox is gone, or was gone
\* already, or the backend failed; then the cache entry is removed.
DeleteKillEnds ==
    /\ \E o \in Tasks, outcome \in {"killed", "error"} :
          /\ sb.calls[o].pc = "kill"
          /\ IF outcome = "error" /\ KillFailureRaises(sb.backend)
             THEN sb' = [sb EXCEPT !.calls[o].pc = "raised",
                                   !.calls[o].result = "error"]
             ELSE sb' = [sb EXCEPT
                           !.exists = IF outcome = "killed" THEN FALSE ELSE @,
                           !.live = IF outcome = "killed" THEN {} ELSE @,
                           !.cache = 0,
                           !.calls[o].pc = "returned",
                           !.calls[o].result = outcome]
    /\ UNCHANGED <<turn, par, tr, dk, es, ck, oq, ts,
                 pty, rt, np, sec, fw, cv, ex, lb, rv>>

SandboxNext ==
    \/ SandboxExpires
    \/ CallGetSandbox
    \/ IsRunningEnds
    \/ ConnectEnds
    \/ CallDeleteSandbox
    \/ DeleteFindEnds
    \/ DeleteKillEnds

SpecSandbox == SandboxInit /\ [][SandboxNext]_vars

\* =====================================================================
\* normalize_path (sandbox_providers/base.py, services/sandbox.py)
\*
\* np.file_path  the argument, a string of characters
\* np.pc         "called" or "returned"
\* np.result     what normalize_path returned
\* =====================================================================

\* Pieces a file_path is put together from.
MaxPieces == 4

Slash == <<"/">>

DotDot == <<".", ".">>

HomeName == <<"h", "o", "m", "e">>

UserName == <<"u", "s", "e", "r">>

\* base = "/home/user"
HomeDir == Slash \o HomeName \o Slash \o UserName

PathPieces ==
    {Slash, DotDot, <<".">>, HomeName, UserName, <<"n">>, <<"e", "t", "c">>}

RECURSIVE Concat(_)
Concat(pieces) ==
    IF pieces = <<>> THEN <<>> ELSE Head(pieces) \o Concat(Tail(pieces))

\* s.split("/")
RECURSIVE SplitSlash(_, _)
SplitSlash(s, current) ==
    IF s = <<>> THEN <<current>>
    ELSE IF Head(s) = "/" THEN <<current>> \o SplitSlash(Tail(s), <<>>)
    ELSE SplitSlash(Tail(s), Append(current, Head(s)))

\* "/".join(comps)
RECURSIVE JoinSlash(_)
JoinSlash(comps) ==
    IF comps = <<>> THEN <<>>
    ELSE IF Len(comps) = 1 THEN comps[1]
    ELSE comps[1] \o Slash \o JoinSlash(Tail(comps))

\* s.startswith(prefix)
StartsWith(s, prefix) ==
    Len(s) >= Len(prefix) /\ SubSeq(s, 1, Len(prefix)) = prefix

\* The slashes a POSIX path keeps in front: two for exactly two, else one.
InitialSlashes(s) ==
    IF ~StartsWith(s, Slash) THEN 0
    ELSE IF StartsWith(s, <<"/", "/">>) /\ ~StartsWith(s, <<"/", "/", "/">>)
    THEN 2 ELSE 1

RECURSIVE Slashes(_)
Slashes(n) == IF n = 0 THEN <<>> ELSE Slash \o Slashes(n - 1)

RECURSIVE DropEmptyAndDot(_)
DropEmptyAndDot(comps) ==
    IF comps = <<>> THEN <<>>
    ELSE IF Head(comps) \in {<<>>, <<".">>} THEN DropEmptyAndDot(Tail(comps))
    ELSE <<Head(comps)>> \o DropEmptyAndDot(Tail(comps))

\* str(PurePosixPath(s)): empty and "." components go, ".." stay.
PurePosixPathStr(s) ==
    LET parts == DropEmptyAndDot(SplitSlash(s, <<>>))
        root == Slashes(InitialSlashes(s))
    IN  IF root = <<>> /\ parts = <<>> THEN <<".">>
        ELSE root \o JoinSlash(parts)

\* PurePosixPath(s).is_absolute()
IsAbsolute(s) == InitialSlashes(s) > 0

\* The loop of posixpath.normpath over the components.
RECURSIVE NormComps(_, _, _)
NormComps(comps, new_comps, initial_slashes) ==
    IF comps = <<>> THEN new_comps
    ELSE LET comp == Head(comps)
         IN  IF comp \in {<<>>, <<".">>}
             THEN NormComps(Tail(comps), new_comps, initial_slashes)
             ELSE IF \/ comp # DotDot
                     \/ (initial_slashes = 0 /\ new_comps = <<>>)
                     \/ (new_comps # <<>> /\ new_comps[Len(new_comps)] = DotDot)
             THEN NormComps(Tail(comps), Append(new_comps, comp),
                            initial_slashes)
             ELSE IF new_comps # <<>>
             THEN NormComps(Tail(comps),
                            SubSeq(new_comps, 1, Len(new_comps) - 1),
                            initial_slashes)
             ELSE NormComps(Tail(comps), new_comps, initial_slashes)

\* posixpath.normpath(path)
NormPath(path) ==
    IF path = <<>> THEN <<".">>
    ELSE LET n == InitialSlashes(path)
             r == Slashes(n) \o JoinSlash(NormComps(SplitSlash(path, <<>>),
                                                    <<>>, n))
         IN  IF r = <<>> THEN <<".">> ELSE r

\* normalize_path(file_path)
NormalizePath(file_path) ==
    LET path == PurePosixPathStr(file_path)
    IN  IF IsAbsolute(file_path) /\ StartsWith(path, HomeDir)
        THEN NormPath(path)
        ELSE IF IsAbsolute(file_path) THEN NormPath(HomeDir \o path)
        ELSE NormPath(HomeDir \o Slash \o path)

PathInputs ==
    UNION {[1 .. n -> PathPieces] : n \in 0 .. MaxPieces}

NormalizeInit ==
    /\ \E pieces \in PathInputs :
          np = [file_path |-> Concat(pieces), pc |-> "called",
                result |-> <<>>]
    /\ turn = Idle /\ par = Idle /\ tr = Idle /\ dk = Idle
    /\ es = Idle /\ ck = Idle /\ oq = Idle /\ ts = Idle
    /\ pty = Idle /\ rt = Idle /\ sb = Idle /\ sec = Idle /\ fw = Idle
    /\ cv = Idle
    /\ ex = Idle
    /\ lb = Idle
    /\ rv = Idle

NormalizeReturn ==
    /\ np.pc = "called"
    /\ np' = [np EXCEPT !.pc = "returned",
                        !.result = NormalizePath(np.file_path)]
    /\ UNCHANGED <<turn, par, tr, dk, es, ck, oq, ts,
                 pty, rt, sb, sec, fw, cv, ex, lb, rv>>

NormalizeNext ==
    \/ NormalizeReturn

SpecNormalize == NormalizeInit /\ [][NormalizeNext]_vars

\* =====================================================================
\* Secrets kept as export lines of ~/.bashrc (sandbox_providers/base.py)
\*
\* sec.bashrc  the lines of ~/.bashrc
\* sec.before  what get_secrets returned before the last operation
\* sec.last    the last operation: [op, key, value]
\* sec.ops     operations made
\* =====================================================================

MaxSecretOps == 3

SecretKeys == {<<"A">>, <<"A", "B">>, <<"A", ".">>, <<"P", "W", "D">>}

SecretValues ==
    {<<>>, <<"x">>, <<"x", "'", "x">>, <<"'", "x", "'">>, <<"\"", "x", "\"">>}

\* SANDBOX_SYSTEM_VARIABLES, of which PWD is one.
SystemVariables == {<<"P", "W", "D">>}

ExportPrefix == <<"e", "x", "p", "o", "r", "t", " ">>

\* s.replace(old, new) for a one-character old.
RECURSIVE Replace(_, _, _)
Replace(s, old, new) ==
    IF s = <<>> THEN <<>>
    ELSE (IF Head(s) = old THEN new ELSE <<Head(s)>>)
         \o Replace(Tail(s), old, new)

\* format_export_command(key, value)
FormatExportCommand(key, value) ==
    ExportPrefix \o key \o <<"=", "'">>
        \o Replace(value, "'", <<"'", "\"", "'", "\"", "'">>) \o <<"'">>

\* The shell reading one word of a command line: quotes open and close,
\* everything else is taken as it is.  (No text here has a blank, "$",
\* backslash or backquote outside the export prefix, which is quoted.)
RECURSIVE ShellWord(_, _, _)
ShellWord(s, mode, out) ==
    IF s = <<>> THEN [mode |-> mode, out |-> out]
    ELSE LET c == Head(s)
         IN  IF mode = "none" /\ c = "\"" THEN ShellWord(Tail(s), "dq", out)
             ELSE IF mode = "none" /\ c = "'" THEN ShellWord(Tail(s), "sq", out)
             ELSE IF mode = "dq" /\ c = "\"" THEN ShellWord(Tail(s), "none", out)
             ELSE IF mode = "sq" /\ c = "'" THEN ShellWord(Tail(s), "none", out)
             ELSE ShellWord(Tail(s), mode, Append(out, c))

\* echo "{export_command}" >> ~/.bashrc: the lines of ~/.bashrc afterwards.
\* A quote left open swallows the rest of the command line, the shell
\* reports a syntax error and nothing is run.
EchoAppend(bashrc, export_command) ==
    LET word == ShellWord(<<"\"">> \o export_command \o <<"\"">>, "none", <<>>)
    IN  IF word.mode = "none" THEN Append(bashrc, word.out) ELSE bashrc

\* key.replace(".", r"\.").replace("*", r"\*")
EscapeKey(key) ==
    Replace(Replace(key, ".", <<"\\", ".">>), "*", <<"\\", "*">>)

\* A basic regular expression matching at the start of the text: "\c" is
\* the character c, "." any character, "*" repeats the atom before it.
RECURSIVE MatchHere(_, _)
MatchHere(pattern, text) ==
    IF pattern = <<>> THEN TRUE
    ELSE LET n == IF pattern[1] = "\\" /\ Len(pattern) >= 2 THEN 2 ELSE 1
             rest == SubSeq(pattern, n + 1, Len(pattern))
             AtomMatches(c) ==
                 IF n = 2 THEN c = pattern[2]
                 ELSE pattern[1] = "." \/ c = pattern[1]
         IN  IF rest # <<>> /\ rest[1] = "*"
             THEN \E k \in 0 .. Len(text) :
                     /\ \A i \in 1 .. k : AtomMatches(text[i])
                     /\ MatchHere(Tail(rest), SubSeq(text, k + 1, Len(text)))
             ELSE /\ text # <<>>
                  /\ AtomMatches(text[1])
                  /\ MatchHere(rest, Tail(text))

\* sed -i '/^export {escaped_key}=/d' ~/.bashrc
SedDelete(bashrc, escaped_key) ==
    SelectSeq(bashrc,
              LAMBDA line :
                  ~MatchHere(ExportPrefix \o escaped_key \o <<"=">>, line))

\* value.strip(ch)
RECURSIVE StripChar(_, _)
StripChar(s, ch) ==
    IF s = <<>> THEN s
    ELSE IF Head(s) = ch THEN StripChar(Tail(s), ch)
    ELSE IF s[Len(s)] = ch THEN StripChar(SubSeq(s, 1, Len(s) - 1), ch)
    ELSE s

\* line.split("=", 1), for a line with "=" in it
RECURSIVE SplitAtEquals(_, _)
SplitAtEquals(line, key) ==
    IF Head(line) = "=" THEN [key |-> key, value |-> Tail(line)]
    ELSE SplitAtEquals(Tail(line), Append(key, Head(line)))

\* grep '^export' ~/.bashrc | sed 's/^export //g'
ExportLines(bashrc) ==
    LET exports == SelectSeq(bashrc, LAMBDA line :
                       StartsWith(line, <<"e", "x", "p", "o", "r", "t">>))
    IN  [i \in 1 .. Len(exports) |->
            IF StartsWith(exports[i], ExportPrefix)
            THEN SubSeq(exports[i], Len(ExportPrefix) + 1, Len(exports[i]))
            ELSE exports[i]]

\* get_secrets: the entries read back from the export lines.
GetSecrets(bashrc) ==
    LET env_lines == SelectSeq(ExportLines(bashrc), LAMBDA line :
                         \E i \in 1 .. Len(line) : line[i] = "=")
        parsed == [i \in 1 .. Len(env_lines) |->
                      LET kv == SplitAtEquals(env_lines[i], <<>>)
                      IN  [key |-> kv.key,
                           value |-> StripChar(StripChar(kv.value, "\""),
                                               "'")]]
    IN  SelectSeq(parsed, LAMBDA entry : entry.key \notin SystemVariables)

SecretInit ==
    /\ sec = [bashrc |-> <<>>, before |-> <<>>, ops |-> 0,
              last |-> [op |-> "none", key |-> <<>>, value |-> <<>>]]
    /\ turn = Idle /\ par = Idle /\ tr = Idle /\ dk = Idle
    /\ es = Idle /\ ck = Idle /\ oq = Idle /\ ts = Idle
    /\ pty = Idle /\ rt = Idle /\ sb = Idle /\ np = Idle /\ fw = Idle
    /\ cv = Idle
    /\ ex = Idle
    /\ lb = Idle
    /\ rv = Idle

\* add_secret(sandbox_id, key, value)
AddSecret ==
    /\ sec.ops < MaxSecretOps
    /\ \E key \in SecretKeys, value \in SecretValues :
          sec' = [bashrc |-> EchoAppend(sec.bashrc,
                                        FormatExportCommand(key, value)),
                  before |-> GetSecrets(sec.bashrc),
                  ops |-> sec.ops + 1,
                  last |-> [op |-> "add", key |-> key, value |-> value]]
    /\ UNCHANGED <<turn, par, tr, dk, es, ck, oq, ts,
                 pty, rt, sb, np, fw, cv, ex, lb, rv>>

\* delete_secret(sandbox_id, key)
DeleteSecret ==
    /\ sec.ops < MaxSecretOps
    /\ \E key \in SecretKeys :
          sec' = [bashrc |-> SedDelete(sec.bashrc, EscapeKey(key)),
                  before |-> GetSecrets(sec.bashrc),
                  ops |-> sec.ops + 1,
                  last |-> [op |-> "delete", key |-> key, value |-> <<>>]]
    /\ UNCHANGED <<turn, par, tr, dk, es, ck, oq, ts,
                 pty, rt, sb, np, fw, cv, ex, lb, rv>>

SecretNext ==
    \/ AddSecret
    \/ DeleteSecret

SpecSecret == SecretInit /\ [][SecretNext]_vars

\* =====================================================================
\* PTY output of one session: on_data callback, output queue and
\* forward_pty_output (services/sandbox.py)
\*
\* fw.chunks   the byte chunks the sandbox has delivered, in arrival order;
\*             chunk i is the i-th to arrive
\* fw.items    output_queue: [id, text] of the chunks waiting
\* fw.dropped  ids of the chunks _enqueue_pty_output took off the queue
\* fw.pc       forward_pty_output: "get" (at output_queue.get), "send" (at
\*             websocket.send_text), "failed" (send raised), "cancelled"
\* fw.buffer   the batch being sent
\* fw.sent     the payloads the websocket has taken: [ids, data]
\* =====================================================================

MaxArrivals == 5

\* Bytes by class: "a" ASCII, "L" the first byte of a two-byte character,
\* "C" a continuation byte.
ChunkBytes == {<<"a">>, <<"L">>, <<"C", "a">>}

\* bytes.decode("utf-8", errors="replace"): "L" "C" is one character
\* ("e"), a byte that fits nowhere becomes U+FFFD ("?").
RECURSIVE DecodeUtf8(_)
DecodeUtf8(bytes) ==
    IF bytes = <<>> THEN <<>>
    ELSE IF Head(bytes) = "a" THEN <<"a">> \o DecodeUtf8(Tail(bytes))
    ELSE IF Head(bytes) = "L" /\ Len(bytes) >= 2 /\ bytes[2] = "C"
    THEN <<"e">> \o DecodeUtf8(Tail(Tail(bytes)))
    ELSE <<"?">> \o DecodeUtf8(Tail(bytes))

\* The inner loop of forward_pty_output: get_nowait until QueueEmpty.
RECURSIVE DrainRest_Prepend(_, _)
DrainRest_Prepend(items, buffer) ==
    IF GetNowait(items).raised THEN [items |-> items, buffer |-> buffer]
    ELSE DrainRest_Prepend(GetNowait(items).items, <<Head(items)>> \o buffer)

RECURSIVE DrainRest(_, _)
DrainRest(items, buffer) ==
    IF GetNowait(items).raised THEN [items |-> items, buffer |-> buffer]
    ELSE DrainRest(GetNowait(items).items, Append(buffer, Head(items)))

\* "".join(buffer)
RECURSIVE JoinData(_)
JoinData(buffer) ==
    IF buffer = <<>> THEN <<>>
    ELSE Head(buffer).text \o JoinData(Tail(buffer))

ForwardInit ==
    /\ fw = [chunks |-> <<>>, items |-> <<>>, dropped |-> {}, pc |-> "get",
             buffer |-> <<>>, sent |-> <<>>]
    /\ turn = Idle /\ par = Idle /\ tr = Idle /\ dk = Idle
    /\ es = Idle /\ ck = Idle /\ oq = Idle /\ ts = Idle
    /\ pty = Idle /\ rt = Idle /\ sb = Idle /\ np = Idle /\ sec = Idle
    /\ cv = Idle
    /\ ex = Idle
    /\ lb = Idle
    /\ rv = Idle

\* PtyDataCallback.__call__(data): _enqueue_pty_output decodes the chunk
\* and puts it, taking the oldest item off a full queue first.
OnPtyData ==
    /\ Len(fw.chunks) < MaxArrivals
    /\ \E bytes \in ChunkBytes :
          LET item == [id |-> Len(fw.chunks) + 1, text |-> DecodeUtf8(bytes)]
              r == EnqueuePtyOutput(fw.items, item, QueueMaxSize)
          IN  fw' = [fw EXCEPT
                  !.chunks = Append(@, bytes),
                  !.items = r.items,
                  !.dropped = IF Full(fw.items, QueueMaxSize)
                                  /\ ~GetNowait(fw.items).raised
                              THEN @ \cup {Head(fw.items).id} ELSE @]
    /\ UNCHANGED <<turn, par, tr, dk, es, ck, oq, ts,
                 pty, rt, sb, np, sec, cv, ex, lb, rv>>

\* forward_pty_output: output_queue.get() returns, the rest of the queue is
\* drained and the batch goes to websocket.send_text.
ForwardDrain ==
    /\ fw.pc = "get"
    /\ fw.items # <<>>
    /\ LET r == DrainRest(Tail(fw.items), <<Head(fw.items)>>)
       IN  fw' = [fw EXCEPT !.items = r.items, !.buffer = r.buffer,
                            !.pc = "send"]
    /\ UNCHANGED <<turn, par, tr, dk, es, ck, oq, ts,
                 pty, rt, sb, np, sec, cv, ex, lb, rv>>

\* websocket.send_text(payload) returns; the loop goes on.
ForwardSent ==
    /\ fw.pc = "send"
    /\ fw' = [fw EXCEPT
           !.sent = Append(@, [ids |-> [i \in 1 .. Len(fw.buffer) |->
                                           fw.buffer[i].id],
                               data |-> JoinData(fw.buffer)]),
           !.buffer = <<>>, !.pc = "get"]
    /\ UNCHANGED <<turn, par, tr, dk, es, ck, oq, ts,
                 pty, rt, sb, np, sec, cv, ex, lb, rv>>

\* websocket.send_text raises: the exception is logged and the task ends.
ForwardSendFails ==
    /\ fw.pc = "send"
    /\ fw' = [fw EXCEPT !.buffer = <<>>, !.pc = "failed"]
    /\ UNCHANGED <<turn, par, tr, dk, es, ck, oq, ts,
                 pty, rt, sb, np, sec, cv, ex, lb, rv>>

\* The output task is cancelled at either await.
ForwardCancelled ==
    /\ fw.pc \in {"get", "send"}
    /\ fw' = [fw EXCEPT !.buffer = <<>>, !.pc = "cancelled"]
    /\ UNCHANGED <<turn, par, tr, dk, es, ck, oq, ts,
                 pty, rt, sb, np, sec, cv, ex, lb, rv>>

ForwardNext ==
    \/ OnPtyData
    \/ ForwardDrain
    \/ ForwardSent
    \/ ForwardSendFails
    \/ ForwardCancelled

SpecForward == ForwardInit /\ [][ForwardNext]_vars

\* =====================================================================
\* Checkpoint ids: the entry points that build a checkpoint directory from
\* an id, in SandboxService (services/sandbox.py) and in SandboxProvider
\* (sandbox_providers/base.py)
\*
\* cv.tree   the content of the working tree /home/user, as a version
\* cv.base   /home/user/.checkpoints exists
\* cv.cps    the directories below /home/user/.checkpoints, by name
\* cv.now    the sandbox's clock
\* cv.calls  calls made
\* cv.last   the last call: entry point, id, how it ended, the commands it
\*           ran in the sandbox and whether it changed cv.tree, cv.base or
\*           cv.cps
\* =====================================================================

MaxIdCalls == 4

MaxTreeEdits == 1

\* A UUID has 32 hexadecimal digits.
UuidHexLen == 32

HexDigits ==
    {"0", "1", "2", "3", "4", "5", "6", "7", "8", "9",
     "a", "b", "c", "d", "e", "f", "A", "B", "C", "D", "E", "F"}

\* A message id as the application makes them: 8-4-4-4-12 digits.
CanonicalUuid(digit) ==
    [i \in 1 .. 36 |-> IF i \in {9, 14, 19, 24} THEN "-" ELSE digit]

MalformedIds == {<<"z">>, <<"a", "b">>, <<".", ".">>}

InputIds == {CanonicalUuid("a"), [i \in 1 .. UuidHexLen |-> "b"]}
                \cup MalformedIds

\* s.strip('{}')
RECURSIVE StripBraces(_)
StripBraces(s) ==
    IF s = <<>> THEN s
    ELSE IF Head(s) \in {"{", "}"} THEN StripBraces(Tail(s))
    ELSE IF s[Len(s)] \in {"{", "}"}
    THEN StripBraces(SubSeq(s, 1, Len(s) - 1))
    ELSE s

\* uuid.UUID(message_id) returns: braces around and hyphens anywhere are
\* dropped, 32 hexadecimal digits must remain.  (No id here has "urn:",
\* "uuid:", blanks, a sign, "0x" or "_", which UUID and int also let by.)
UuidParses(message_id) ==
    LET hex == Replace(StripBraces(message_id), "-", <<>>)
    IN  /\ Len(hex) = UuidHexLen
        /\ \A i \in 1 .. Len(hex) : hex[i] \in HexDigits

\* _validate_message_id(message_id) raises SandboxException.
ValidateMessageIdRaises(message_id) == ~UuidParses(message_id)

\* CHECKPOINT_BASE_DIR
CheckpointBaseDir ==
    HomeDir \o <<"/", ".", "c", "h", "e", "c", "k", "p", "o", "i", "n", "t",
                 "s">>

\* The directory f"{CHECKPOINT_BASE_DIR}/{checkpoint_id}" names.
CheckpointDir(checkpoint_id) ==
    NormPath(CheckpointBaseDir \o Slash \o checkpoint_id)

\* The names a directory below /home/user/.checkpoints can have here.
DirNames == {id \in InputIds : CheckpointDir(id) # HomeDir}

NoDir == [exists |-> FALSE, content |-> 0, mtime |-> 0]

\* [ -d checkpoint_dir ]
DirExists(s, checkpoint_id) ==
    IF CheckpointDir(checkpoint_id) = HomeDir THEN TRUE
    ELSE s.base /\ s.cps[checkpoint_id].exists

\* _cleanup_old_checkpoints: the directories beyond the newest
\* MAX_CHECKPOINTS_PER_SANDBOX.
OldCheckpoints(cps) ==
    {c \in DirNames :
        /\ cps[c].exists
        /\ Cardinality({o \in DirNames : cps[o].exists
                                           /\ cps[o].mtime > cps[c].mtime})
               >= MAX_CHECKPOINTS_PER_SANDBOX}

\* SandboxProvider.create_checkpoint: mkdir -p, list, rsync of the working
\* tree into checkpoint_dir, list and rm -rf of the old ones.  The rsync
\* succeeds here.  Syncing /home/user onto itself changes nothing.
ProviderCreate(s, checkpoint_id) ==
    LET cps1 == IF CheckpointDir(checkpoint_id) = HomeDir THEN s.cps
                ELSE [s.cps EXCEPT ![checkpoint_id] =
                         [exists |-> TRUE, content |-> s.tree,
                          mtime |-> s.now]]
        old == OldCheckpoints(cps1)
    IN  [result |-> "returned",
         commands |-> 4 + Cardinality(old),
         tree |-> s.tree, base |-> TRUE,
         cps |-> [c \in DirNames |-> IF c \in old THEN NoDir ELSE cps1[c]]]

\* SandboxProvider.restore_checkpoint: FileNotFoundError unless the
\* directory exists, else rsync --delete of it into the working tree.
ProviderRestore(s, checkpoint_id) ==
    IF ~DirExists(s, checkpoint_id)
    THEN [result |-> "raised", commands |-> 1,
          tree |-> s.tree, base |-> s.base, cps |-> s.cps]
    ELSE [result |-> "returned", commands |-> 2,
          tree |-> IF CheckpointDir(checkpoint_id) = HomeDir THEN s.tree
                   ELSE s.cps[checkpoint_id].content,
          base |-> s.base, cps |-> s.cps]

Refused(s) ==
    [result |-> "raised", commands |-> 0,
     tree |-> s.tree, base |-> s.base, cps |-> s.cps]

\* SandboxService.create_checkpoint: the id is validated first, the steps
\* after are those of the provider.
ServiceCreate(s, message_id) ==
    IF ValidateMessageIdRaises(message_id) THEN Refused(s)
    ELSE ProviderCreate(s, message_id)

\* SandboxService.restore_checkpoint
ServiceRestore(s, message_id) ==
    IF ValidateMessageIdRaises(message_id) THEN Refused(s)
    ELSE ProviderRestore(s, message_id)

\* SandboxService.restore_to_message: [ -d checkpoint_dir ] is run first;
\* restore_checkpoint, and with it the validation, comes after.
ServiceRestoreToMessage(s, message_id) ==
    IF DirExists(s, message_id)
    THEN LET r == ServiceRestore(s, message_id)
         IN  [r EXCEPT !.commands = @ + 1]
    ELSE [Refused(s) EXCEPT !.commands = 1]

EntryPoints ==
    {"SandboxService.create_checkpoint", "SandboxService.restore_checkpoint",
     "SandboxService.restore_to_message",
     "SandboxProvider.create_checkpoint",
     "SandboxProvider.restore_checkpoint"}

ValidateInit ==
    /\ cv = [tree |-> 0, base |-> FALSE, cps |-> [c \in DirNames |-> NoDir],
             now |-> 1, calls |-> 0, edits |-> 0,
             last |-> [entry |-> "none", id |-> <<>>, result |-> "none",
                       commands |-> 0, changed |-> FALSE]]
    /\ turn = Idle /\ par = Idle /\ tr = Idle /\ dk = Idle
    /\ es = Idle /\ ck = Idle /\ oq = Idle /\ ts = Idle
    /\ pty = Idle /\ rt = Idle /\ sb = Idle /\ np = Idle
    /\ sec = Idle /\ fw = Idle
    /\ ex = Idle
    /\ lb = Idle
    /\ rv = Idle

\* The agent or the user changes the working tree.
EditTree ==
    /\ cv.edits < MaxTreeEdits
    /\ cv' = [cv EXCEPT !.tree = @ + 1, !.edits = @ + 1,
                        !.last.entry = "none"]
    /\ UNCHANGED <<turn, par, tr, dk, es, ck, oq, ts,
                 pty, rt, sb, np, sec, fw, ex, lb, rv>>

Called(entry, id, r) ==
    cv' = [cv EXCEPT
              !.tree = r.tree, !.base = r.base, !.cps = r.cps,
              !.now = @ + 1, !.calls = @ + 1,
              !.last = [entry |-> entry, id |-> id, result |-> r.result,
                        commands |-> r.commands,
                        changed |-> \/ r.tree # cv.tree
                                    \/ r.base # cv.base
                                    \/ r.cps # cv.cps]]

ServiceCreateCheckpoint ==
    /\ cv.calls < MaxIdCalls
    /\ \E id \in InputIds :
          Called("SandboxService.create_checkpoint", id,
                 ServiceCreate(cv, id))
    /\ UNCHANGED <<turn, par, tr, dk, es, ck, oq, ts,
                 pty, rt, sb, np, sec, fw, ex, lb, rv>>

ServiceRestoreCheckpoint ==
    /\ cv.calls < MaxIdCalls
    /\ \E id \in InputIds :
          Called("SandboxService.restore_checkpoint", id,
                 ServiceRestore(cv, id))
    /\ UNCHANGED <<turn, par, tr, dk, es, ck, oq, ts,
                 pty, rt, sb, np, sec, fw, ex, lb, rv>>

RestoreToMessage ==
    /\ cv.calls < MaxIdCalls
    /\ \E id \in InputIds :
          Called("SandboxService.restore_to_message", id,
                 ServiceRestoreToMessage(cv, id))
    /\ UNCHANGED <<turn, par, tr, dk, es, ck, oq, ts,
                 pty, rt, sb, np, sec, fw, ex, lb, rv>>

ProviderCreateCheckpoint ==
    /\ cv.calls < MaxIdCalls
    /\ \E id \in InputIds :
          Called("SandboxProvider.create_checkpoint", id,
                 ProviderCreate(cv, id))
    /\ UNCHANGED <<turn, par, tr, dk, es, ck, oq, ts,
                 pty, rt, sb, np, sec, fw, ex, lb, rv>>

ProviderRestoreCheckpoint ==
    /\ cv.calls < MaxIdCalls
    /\ \E id \in InputIds :
          Called("SandboxProvider.restore_checkpoint", id,
                 ProviderRestore(cv, id))
    /\ UNCHANGED <<turn, par, tr, dk, es, ck, oq, ts,
                 pty, rt, sb, np, sec, fw, ex, lb, rv>>

ValidateNext ==
    \/ EditTree
    \/ ServiceCreateCheckpoint
    \/ ServiceRestoreCheckpoint
    \/ RestoreToMessage
    \/ ProviderCreateCheckpoint
    \/ ProviderRestoreCheckpoint

SpecValidate == ValidateInit /\ [][ValidateNext]_vars

\* =====================================================================
\* E2BSandboxProvider.execute_command in the foreground: sandbox.commands.run
\* under _retry_operation, under _execute_with_timeout
\* (sandbox_providers/e2b_provider.py)
\*
\* ex.pc     "attempt" (commands.run is awaited), "sleep" (tenacity waits),
\*           "returned", "raised"
\* ex.tried  how each attempt ended
\* ex.runs   how often the command has run in the sandbox
\* ex.result the exit code in the CommandResult returned, -1 if none
\* =====================================================================

\* How sandbox.commands.run can end.  The command ran and exited with 0:
\* the result is returned.  It ran and exited with another code: the SDK
\* raises CommandExitException, whose message carries the code and the
\* command's stderr.  The backend did not take the request: the command has
\* not run.
RunOutcomes ==
    { [ran |-> TRUE, ok |-> TRUE, exit_code |-> 0, text |-> <<>>],
      [ran |-> TRUE, ok |-> FALSE, exit_code |-> 1,
       text |-> <<"c", "o", "d", "e", " ", "1">>],
      [ran |-> TRUE, ok |-> FALSE, exit_code |-> 2,
       text |-> <<"c", "o", "d", "e", " ", "2", ":", "4", "0", "3">>] }
    \cup {[ran |-> FALSE, ok |-> FALSE, exit_code |-> -1, text |-> f.text] :
             f \in Failures}

ExecInit ==
    /\ ex = [pc |-> "attempt", tried |-> <<>>, runs |-> 0, result |-> -1]
    /\ turn = Idle /\ par = Idle /\ tr = Idle /\ dk = Idle
    /\ es = Idle /\ ck = Idle /\ oq = Idle /\ ts = Idle
    /\ pty = Idle /\ rt = Idle /\ sb = Idle /\ np = Idle
    /\ sec = Idle /\ fw = Idle /\ cv = Idle
    /\ lb = Idle
    /\ rv = Idle

\* One attempt of _retry_operation(sandbox.commands.run, command, ...) ends.
ExecAttempt ==
    /\ ex.pc = "attempt"
    /\ \E outcome \in RunOutcomes :
          LET n == Len(ex.tried) + 1
          IN  ex' = [ex EXCEPT
                       !.tried = Append(@, outcome),
                       !.runs = IF outcome.ran THEN @ + 1 ELSE @,
                       !.result = IF outcome.ok THEN outcome.exit_code ELSE @,
                       !.pc = IF outcome.ok THEN "returned"
                              ELSE IF ~IsRetryableError(outcome) THEN "raised"
                              ELSE IF StopAfterAttempt(n) THEN "raised"
                              ELSE "sleep"]
    /\ UNCHANGED <<turn, par, tr, dk, es, ck, oq, ts,
                 pty, rt, sb, np, sec, fw, cv, lb, rv>>

\* The wait is over, commands.run is called again with the same command.
ExecSleep ==
    /\ ex.pc = "sleep"
    /\ ex' = [ex EXCEPT !.pc = "attempt"]
    /\ UNCHANGED <<turn, par, tr, dk, es, ck, oq, ts,
                 pty, rt, sb, np, sec, fw, cv, lb, rv>>

\* _execute_with_timeout: wait_for gives up on the retried call and
\* TimeoutError is raised.
ExecTimeout ==
    /\ ex.pc \in {"attempt", "sleep"}
    /\ ex' = [ex EXCEPT !.pc = "raised"]
    /\ UNCHANGED <<turn, par, tr, dk, es, ck, oq, ts,
                 pty, rt, sb, np, sec, fw, cv, lb, rv>>

ExecNext ==
    \/ ExecAttempt
    \/ ExecSleep
    \/ ExecTimeout

SpecExec == ExecInit /\ [][ExecNext]_vars

\* =====================================================================
\* The hard-link base of create_checkpoint, for ids new and old
\* (sandbox_providers/base.py)
\*
\* lb.now     the sandbox's clock, in seconds
\* lb.root    the modification time of /home/user
\* lb.base    /home/user/.checkpoints exists
\* lb.cps     the checkpoint directories: whether each exists and its
\*            modification time
\* lb.creates create_checkpoint calls made
\* lb.last    the last create_checkpoint: its id, the checkpoint whose
\*            directory went into --link-dest (0: none) and the checkpoints
\*            that existed when it was called
\* =====================================================================

MaxLinkTime == 2

MaxLinkCreates == 4

LinkBaseInit ==
    /\ lb = [now |-> 0, root |-> 0, base |-> FALSE,
             cps |-> [c \in CheckpointIds |-> [exists |-> FALSE, mtime |-> 0]],
             creates |-> 0,
             last |-> [id |-> 0, link |-> 0, existed |-> {}]]
    /\ turn = Idle /\ par = Idle /\ tr = Idle /\ dk = Idle
    /\ es = Idle /\ ck = Idle /\ oq = Idle /\ ts = Idle
    /\ pty = Idle /\ rt = Idle /\ sb = Idle /\ np = Idle
    /\ sec = Idle /\ fw = Idle /\ cv = Idle /\ ex = Idle
    /\ rv = Idle

\* A second passes in the sandbox.
LinkClockTick ==
    /\ lb.now < MaxLinkTime
    /\ lb' = [lb EXCEPT !.now = @ + 1]
    /\ UNCHANGED <<turn, par, tr, dk, es, ck, oq, ts,
                 pty, rt, sb, np, sec, fw, cv, ex, rv>>

\* An entry of /home/user is added or removed.
TouchRoot ==
    /\ lb.root # lb.now
    /\ lb' = [lb EXCEPT !.root = lb.now]
    /\ UNCHANGED <<turn, par, tr, dk, es, ck, oq, ts,
                 pty, rt, sb, np, sec, fw, cv, ex, rv>>

\* The id _get_latest_checkpoint_dir builds its directory from, 0 if the
\* list is empty.
LatestCheckpointId(base, cps) ==
    LET l == ListCheckpoints(base, cps)
    IN  IF l = <<>> THEN 0 ELSE l[1]

\* create_checkpoint(sandbox_id, checkpoint_id) with any id, one that has a
\* directory included: mkdir -p, --link-dest of the latest directory listed,
\* rsync -a into the directory of the id, removal of the old ones.
CreateAnyCheckpoint ==
    /\ lb.creates < MaxLinkCreates
    /\ \E id \in CheckpointIds :
          LET root == IF lb.base THEN lb.root ELSE lb.now
              link == LatestCheckpointId(lb.base, lb.cps)
              cps1 == [lb.cps EXCEPT ![id] = [exists |-> TRUE,
                                              mtime |-> root]]
              gone == CleanupOldCheckpoints(TRUE, cps1)
          IN  lb' = [lb EXCEPT
                       !.root = root, !.base = TRUE,
                       !.cps = [c \in CheckpointIds |->
                                   IF c \in gone
                                   THEN [exists |-> FALSE, mtime |-> 0]
                                   ELSE cps1[c]],
                       !.creates = @ + 1,
                       !.last = [id |-> id, link |-> link,
                                 existed |-> {c \in CheckpointIds :
                                                 lb.cps[c].exists}]]
    /\ UNCHANGED <<turn, par, tr, dk, es, ck, oq, ts,
                 pty, rt, sb, np, sec, fw, cv, ex, rv>>

LinkBaseNext ==
    \/ LinkClockTick
    \/ TouchRoot
    \/ CreateAnyCheckpoint

SpecLinkBase == LinkBaseInit /\ [][LinkBaseNext]_vars

\* =====================================================================
\* The revoked flag of a chat over consecutive turns
\* (api/endpoints/chat.py cancel_stream, services/chat.py,
\* tasks/chat_processor.py)
\* =====================================================================
(***************************************************************************)
(* One chat's keys in Redis, the worker that runs the chat's turns one     *)
(* after the other, and the requests to the cancel endpoint.               *)
(*   task          chat:{id}:task: 0 when absent, else the task id, which  *)
(*                 is the number of the turn                               *)
(*   revoked       chat:{id}:revoked is present                            *)
(*   written       for the flag that is present: the task id its writer    *)
(*                 had read and the number of turns begun when it was      *)
(*                 written                                                 *)
(*   turns         the turns begun so far                                  *)
(*   wpc           where the turn is: "idle" (none), "queued",             *)
(*                 "running", "cleanup_task", "cleanup_revoked"            *)
(*   was_cancelled ctx.was_cancelled of the running turn                   *)
(*   cancels       each request to the cancel endpoint: its position       *)
(*                 ("new", "read", "done") and the task id it read         *)
(*   observed      what the watchers saw: the turn of the watcher and      *)
(*                 `written` of the flag it read                           *)
(***************************************************************************)
MaxTurns == 3
MaxCancels == 2

NoFlag == [for |-> 0, during |-> 0]

RevokeInit ==
    /\ turn = Idle /\ par = Idle /\ tr = Idle /\ dk = Idle /\ es = Idle
    /\ ck = Idle /\ oq = Idle /\ ts = Idle /\ pty = Idle /\ rt = Idle
    /\ sb = Idle /\ np = Idle /\ sec = Idle /\ fw = Idle /\ cv = Idle
    /\ ex = Idle /\ lb = Idle
    /\ rv = [task |-> 0, revoked |-> FALSE, written |-> NoFlag,
             turns |-> 0, wpc |-> "idle", was_cancelled |-> FALSE,
             cancels |-> [c \in 1..MaxCancels |->
                            [pc |-> "new", task_id |-> 0]],
             observed |-> {}]

\* ChatService: `process_chat.delay(...)` queues the next turn and
\* `_store_active_task` writes its task id under the task key.
StoreActiveTask ==
    /\ rv.wpc = "idle"
    /\ rv.turns < MaxTurns
    /\ rv' = [rv EXCEPT !.turns = @ + 1, !.task = rv.turns + 1,
                        !.wpc = "queued"]
    /\ UNCHANGED <<turn, par, tr, dk, es, ck, oq, ts,
                 pty, rt, sb, np, sec, fw, cv, ex, lb>>

\* _prepare_stream: the worker deletes the chat's stream key and writes
\* the task key again; the revoked key is not touched.  The turn runs and
\* _process_stream_events starts its watcher.
PrepareStream ==
    /\ rv.wpc = "queued"
    /\ rv' = [rv EXCEPT !.task = rv.turns, !.wpc = "running",
                        !.was_cancelled = FALSE]
    /\ UNCHANGED <<turn, par, tr, dk, es, ck, oq, ts,
                 pty, rt, sb, np, sec, fw, cv, ex, lb>>

\* _monitor_revocation: a poll of _wait_for_task_revocation reads "1"
\* under the revoked key; the watcher sets was_cancelled and cancels the
\* main task, which goes to its `finally`.  A poll that finds no flag
\* sleeps and changes nothing.
MonitorRevocation ==
    /\ rv.wpc = "running"
    /\ rv.revoked
    /\ rv' = [rv EXCEPT !.was_cancelled = TRUE,
                        !.observed = @ \cup {[turn |-> rv.turns,
                                              for |-> rv.written.for,
                                              during |-> rv.written.during]},
                        !.wpc = "cleanup_task"]
    /\ UNCHANGED <<turn, par, tr, dk, es, ck, oq, ts,
                 pty, rt, sb, np, sec, fw, cv, ex, lb>>

\* The agent stream ends or fails: process_chat_stream reaches its
\* `finally` without the watcher having seen a flag.
StreamOver ==
    /\ rv.wpc = "running"
    /\ rv' = [rv EXCEPT !.wpc = "cleanup_task"]
    /\ UNCHANGED <<turn, par, tr, dk, es, ck, oq, ts,
                 pty, rt, sb, np, sec, fw, cv, ex, lb>>

\* _cleanup_task_resources, first await: `delete(chat:{id}:task)`.
CleanupDeleteTask ==
    /\ rv.wpc = "cleanup_task"
    /\ rv' = [rv EXCEPT !.task = 0, !.wpc = "cleanup_revoked"]
    /\ UNCHANGED <<turn, par, tr, dk, es, ck, oq, ts,
                 pty, rt, sb, np, sec, fw, cv, ex, lb>>

\* _cleanup_task_resources, second await: `delete(chat:{id}:revoked)`.
CleanupDeleteRevoked ==
    /\ rv.wpc = "cleanup_revoked"
    /\ rv' = [rv EXCEPT !.revoked = FALSE, !.written = NoFlag,
                        !.wpc = "idle"]
    /\ UNCHANGED <<turn, par, tr, dk, es, ck, oq, ts,
                 pty, rt, sb, np, sec, fw, cv, ex, lb>>

\* cancel_stream: `task_id = await redis.get(task_key)`; without a task id
\* the request returns.
CancelReadTask(c) ==
    /\ rv.cancels[c].pc = "new"
    /\ rv' = [rv EXCEPT !.cancels[c] =
                IF rv.task = 0 THEN [pc |-> "done", task_id |-> 0]
                ELSE [pc |-> "read", task_id |-> rv.task]]
    /\ UNCHANGED <<turn, par, tr, dk, es, ck, oq, ts,
                 pty, rt, sb, np, sec, fw, cv, ex, lb>>

\* cancel_stream: `await redis.setex(chat:{id}:revoked, ttl, "1")`, then
\* the publish on the cancel channel, which the worker does not listen to.
CancelSetRevoked(c) ==
    /\ rv.cancels[c].pc = "read"
    /\ rv' = [rv EXCEPT !.revoked = TRUE,
                        !.written = [for |-> rv.cancels[c].task_id,
                                     during |-> rv.turns],
                        !.cancels[c].pc = "done"]
    /\ UNCHANGED <<turn, par, tr, dk, es, ck, oq, ts,
                 pty, rt, sb, np, sec, fw, cv, ex, lb>>

\* The revoked key reaches its time to live
\* (CHAT_REVOKED_KEY_TTL_SECONDS) and Redis removes it.
RevokedExpires ==
    /\ rv.revoked
    /\ rv' = [rv EXCEPT !.revoked = FALSE, !.written = NoFlag]
    /\ UNCHANGED <<turn, par, tr, dk, es, ck, oq, ts,
                 pty, rt, sb, np, sec, fw, cv, ex, lb>>

RevokeNext ==
    \/ StoreActiveTask
    \/ PrepareStream
    \/ MonitorRevocation
    \/ StreamOver
    \/ CleanupDeleteTask
    \/ CleanupDeleteRevoked
    \/ \E c \in 1..MaxCancels : CancelReadTask(c)
    \/ \E c \in 1..MaxCancels : CancelSetRevoked(c)
    \/ RevokedExpires

SpecRevoke == RevokeInit /\ [][RevokeNext]_vars

\* ---------------------------------------------------------------------
\* C1: if the watcher cancels the main task of an in-flight turn, the turn
\* ends interrupted -- message status INTERRUPTED and a terminal entry in
\* the log -- wherever the main task was suspended at that moment, and the
\* transport that was active was asked to close.
C1_InterruptedWhereverCancelled ==
    (turn.mainPc = "done" /\ turn.cancelledAt \in {"anext", "publish"})
        => /\ turn.msgStatus = "INTERRUPTED"
           /\ turn.outcome = "interrupted"
           /\ Len(turn.log) > 0 /\ turn.log[Len(turn.log)] \in {"complete", "error"}
           /\ (turn.transportCreated => turn.closeAsked)

\* The same for a main task cancelled while it awaits the next agent event
\* (used to try the model; the part of C1 the code does satisfy).
Try_InterruptedWhenCancelledAtAnext ==
    (turn.mainPc = "done" /\ turn.cancelledAt = "anext")
        => /\ turn.msgStatus = "INTERRUPTED"
           /\ turn.outcome = "interrupted"
           /\ (turn.transportCreated => turn.closeAsked)


(***************************************************************************)
(* Claims about the CLI output parser, checked under SpecParser.           *)
(***************************************************************************)

\* C7: read_messages yields the objects in the order the CLI emitted them
\* and yields nothing after an object whose type is "result": a result
\* object can only be the last one yielded, and two yielded objects that
\* the CLI emitted stand in the order of their emission.
C7_OrderAndStopAtResult ==
    par # Idle =>
        LET y == par.st.yielded
            e == par.emitted
        IN  /\ \A i \in 1..Len(y) : IsResult(y[i]) => i = Len(y)
            /\ \A i, j \in 1..Len(y) : \A p, q \in 1..Len(e) :
                  (i < j /\ y[i] = e[p] /\ y[j] = e[q]) => p < q

\* A run over several chunks that yielded an object, then the result, and
\* ended although the CLI wrote one more object after the result.
C7_Witness ==
    /\ par # Idle
    /\ par.phase = "ended"
    /\ Len(par.fed) >= 2
    /\ Len(par.st.yielded) = 2
    /\ par.st.yielded = SubSeq(par.emitted, 1, 2)
    /\ IsResult(par.st.yielded[2])
    /\ Len(par.emitted) = 3

\* C8 (first part): one chunk holding two concatenated JSON values yields
\* two objects.
C8_TwoValuesInOneChunk ==
    (par # Idle /\ par.phase = "ended" /\ Len(par.fed) = 1
       /\ par.text = ObjA \o ObjB)
        => par.st.yielded = par.emitted

\* C8 (second part): one JSON value split across two chunks yields one
\* object.
C8_SplitValue ==
    (par # Idle /\ par.phase = "ended" /\ Len(par.fed) = 2
       /\ Len(par.emitted) = 1 /\ RawDecode(par.text).end = Len(par.text) + 1)
        => Len(par.st.yielded) = 1

\* C8 (third part): a finished run yields the same objects as a run over
\* the same chunks with the escape sequences removed.
C8_AnsiAsStripped ==
    (par # Idle /\ par.phase # "running")
        => par.st.yielded = FeedAll(ParserStart, par.fedPlain).yielded

\* C8: the parser yields two objects when one chunk holds two concatenated
\* JSON values, one object when a JSON value arrives split across two
\* chunks, and the same objects for ANSI-interleaved input as for the same
\* input with the escapes removed.
C8_ConcatenatedSplitAndAnsi ==
    /\ C8_TwoValuesInOneChunk
    /\ C8_SplitValue
    /\ C8_AnsiAsStripped

\* No character of the output is outside the accumulated buffer until an
\* object is decoded: the text starts the JSON and has no white space and
\* no escape sequence.
Accumulates(text) ==
    /\ text # <<>> /\ text[1] \in {"{", "["}
    /\ \A i \in 1..Len(text) : text[i] \notin PyWhitespace \cup {ESC}

\* C10: the parser never goes on with an accumulated buffer beyond the cap,
\* and when more characters than the cap arrived without an object having
\* been decoded, the run has failed with CLIJSONDecodeError.
C10_BufferCapEnforced ==
    par # Idle =>
        /\ par.phase = "running" => Len(par.st.json_buffer) <= MaxBufferSize
        /\ (Accumulates(par.text) /\ par.st.yielded = <<>>
              /\ par.pos > MaxBufferSize)
               => /\ par.phase = "raised"
                  /\ par.st.error = "CLIJSONDecodeError"

\* A run that failed after the third chunk took the buffer over the cap.
C10_Witness ==
    /\ par # Idle
    /\ par.phase = "raised"
    /\ par.st.error = "CLIJSONDecodeError"
    /\ par.st.yielded = <<>>
    /\ Len(par.fed) = 3
    /\ par.pos > MaxBufferSize
    /\ Len(par.fed[1]) + Len(par.fed[2]) <= MaxBufferSize

(***************************************************************************)
(* Claims about the command transport, checked under SpecTransport.        *)
(***************************************************************************)

\* Nothing will put anything into the queue any more: the monitor task is
\* over and so is the reader task (Docker), or the SDK has no output left
\* to hand over (E2B).
NothingToCome ==
    /\ tr.monPc # "run"
    /\ \/ tr.rdPc \in {"none", "done"}
       \/ tr.backend = "e2b" /\ tr.rdPc = "recv" /\ tr.unread = <<>>

\* C2: after close() was called on a connected transport and has returned,
\* a consumer iterating read_messages is never left waiting on the empty
\* queue with nothing left that would put an item into it, so that it
\* eventually stops.
C2_ConsumerStopsAfterClose ==
    ~ /\ tr # Idle
      /\ tr.closedConnected
      /\ \A i \in 1..MaxCloses : tr.closePc[i] \in {"idle", "done"}
      /\ tr.conPc = "running"
      /\ tr.queue = <<>>
      /\ NothingToCome

\* C3: when the process exited with a non-zero code or disappeared, a
\* consumer that has stopped (no close call, no result object, no failed
\* write) has raised the matching error, ProcessError or the connection
\* error, after yielding every object the process wrote; it has not ended
\* normally.
C3_ExitErrorAfterOutput ==
    ( /\ tr # Idle
      /\ tr.proc \in {"exit1", "gone"}
      /\ tr.conPc \in {"ended", "raised"}
      /\ \A i \in 1..MaxCloses : tr.closePc[i] = "idle"
      /\ tr.st.error # "NotConnected"
      /\ ~HasResult(tr.st.yielded)
      /\ tr.writeRes # "SendFailed" )
        => /\ tr.conPc = "raised"
           /\ tr.st.error = ExitError(tr.proc)
           /\ Len(tr.st.yielded) = tr.objects

\* C4: a write call that began before connect had completed was rejected
\* with the not-ready error, a write call that began after an EOF marker
\* had reached the process was rejected (with the input-closed error, or
\* the not-ready error once the transport is closed), and in both cases no
\* data reached the stdin of the process.
C4_WriteRejected ==
    (tr # Idle /\ tr.wrPc # "idle") =>
        /\ ~tr.wrCtx.connected => tr.writeRes = "NotReady"
        /\ tr.wrCtx.eofSent => tr.writeRes \in {"InputClosed", "NotReady"}
        /\ (~tr.wrCtx.connected \/ tr.wrCtx.eofSent) => tr.stdinData = 0

\* C5: the EOF marker reaches the stdin of the process at most once,
\* however the end_input calls overlap and whichever sends fail.
C5_EofSentOnce ==
    tr # Idle => tr.eofCount <= 1

\* The closed state: every field that close resets is reset.
ClosedState ==
    [ready |-> FALSE, monitor_task |-> FALSE, reader_task |-> FALSE,
     connection |-> FALSE, exec_id |-> FALSE, docker_client |-> FALSE,
     stdin_closed |-> FALSE]

\* C6: every close call, from whatever state it was made, has left the
\* transport in the closed state when it returned, the same for the first
\* call and for the calls after it.  (No path of close raises: the model
\* of close has none, every failure of the sandbox being suppressed.)
C6_CloseLeavesClosed ==
    tr # Idle =>
        \A n \in 1..Len(tr.closeSnaps) :
            /\ tr.closeSnaps[n] = ClosedState
            /\ tr.closeSnaps[n] = tr.closeSnaps[1]

\* The cases of the claims above that hold.  A write call that began while
\* no end_input call was suspended is rejected as C4 says.
Try_WriteRejectedOutsideEndInput ==
    (tr # Idle /\ tr.wrPc # "idle" /\ ~tr.wrCtx.endInFlight) => C4_WriteRejected

\* On E2B every close call leaves the closed state.
Try_CloseLeavesClosedE2B ==
    (tr # Idle /\ tr.backend = "e2b") => C6_CloseLeavesClosed

\* On E2B a process that wrote whole lines only has its exit error raised
\* after its objects.
Try_ExitErrorAfterWholeLinesE2B ==
    (tr # Idle /\ tr.backend = "e2b" /\ tr.scenario.script # "cut")
        => C3_ExitErrorAfterOutput

\* On Docker the same holds for a process that exited with a non-zero code.
Try_ExitCodeAfterWholeLinesDocker ==
    (tr # Idle /\ tr.backend = "docker" /\ tr.scenario.script # "cut"
       /\ tr.proc = "exit1")
        => C3_ExitErrorAfterOutput

(***************************************************************************)
(* Claims about the Docker stream reader, checked under SpecDocker.        *)
(***************************************************************************)

\* C9: once the stream presented a frame whose declared length exceeds the
\* maximum buffer size, no later bytes of the stream are queued as output,
\* and the consumer does not end normally: it stops by raising a
\* buffer-exceeded error.
C9_OversizeFrameIsFatal ==
    (dk # Idle /\ dk.oversized) =>
        /\ dk.putAfter = 0
        /\ dk.conPc # "running"
              => dk.conPc = "raised" /\ dk.exit_error = "BufferExceeded"

\* The two parts of C9 apart; each is refuted.  Nothing is queued after a
\* frame longer than the maximum.
Try_NothingQueuedAfterOversize ==
    (dk # Idle /\ dk.oversized) => dk.putAfter = 0

\* After a frame longer than the maximum the consumer does not end normally.
Try_OversizeNotEndedNormally ==
    (dk # Idle /\ dk.oversized) => dk.conPc # "ended"

\* ---------------------------------------------------------------------
\* Chat event stream
\* ---------------------------------------------------------------------

\* What a client that has seen last_event_id is to receive from log.
Expected(log, last_event_id) ==
    UpToTerminal(IF last_event_id = NoId THEN log
                 ELSE After(log, ParseStreamId(last_event_id)))

ReplayOver == es # Idle /\ es.pc \notin {"none", "replay"}

\* C11: a replay requested with the id of entry e_k of the log yields
\* exactly the entries after e_k, in order, up to and including the first
\* entry of kind complete or error.
C11_ReplayAfterLastId ==
    (ReplayOver /\ es.last_event_id # NoId) =>
        es.replayed = Expected(es.snapshot, es.last_event_id)

\* A replay requested without a last id yields the whole log up to and
\* including the first terminal entry.
Try_ReplayFromStart ==
    (ReplayOver /\ es.last_event_id = NoId) =>
        es.replayed = Expected(es.snapshot, NoId)

\* A replay never yields e_k or an entry before it, nor an entry after a
\* terminal one.
Try_ReplayYieldsNoOther ==
    (es # Idle /\ es.pc # "none") =>
        \E n \in 0..Len(Expected(es.snapshot, es.last_event_id)) :
            es.replayed = SubSeq(Expected(es.snapshot, es.last_event_id), 1, n)

\* C12: when the event stream of a client that connected with last id L
\* ends, the client has received every entry the log then holds with id
\* greater than L, up to and including the first terminal one, each once
\* and in id order, whatever the worker appended meanwhile and whatever the
\* revocation flag was.
C12_NothingSkippedOrDuplicated ==
    (es # Idle /\ es.pc = "done") =>
        es.delivered = Expected(es.atEnd, es.last_event_id)

\* What was received so far is an initial part of what is to be received:
\* nothing is duplicated, reordered or passed over on the way.
Try_DeliveredInOrder ==
    (es # Idle /\ es.pc # "none") =>
        \E n \in 0..Len(Expected(es.log, es.last_event_id)) :
            es.delivered = SubSeq(Expected(es.log, es.last_event_id), 1, n)

\* A stream that the cancellation did not end has delivered everything up
\* to the first terminal entry.
Try_CompleteUnlessCancelled ==
    (es # Idle /\ es.pc = "done" /\ ~es.cancelled) =>
        C12_NothingSkippedOrDuplicated

\* ---------------------------------------------------------------------
\* Turn processor, revocation
\* ---------------------------------------------------------------------

\* C13: a turn whose watcher recorded the revocation (was_cancelled) ends
\* interrupted -- status INTERRUPTED, a complete entry, never FAILED and
\* never an error entry -- whichever way the event stream ended.
C13_RevokedTurnEndsInterrupted ==
    (turn # Idle /\ turn.mainPc = "done" /\ turn.was_cancelled) =>
        /\ turn.outcome = "interrupted"
        /\ turn.msgStatus = "INTERRUPTED"
        /\ turn.log[Len(turn.log)] = "complete"

\* The same for the turns whose stream did not raise an exception and whose
\* main task was not cancelled while it published a content entry.
Try_RevokedEndsInterruptedUnlessRaised ==
    (turn # Idle /\ turn.mainPc = "done" /\ turn.was_cancelled
        /\ turn.pendingExc = "none") => C13_RevokedTurnEndsInterrupted

\* A revoked turn whose stream raised an exception is not marked FAILED.
Try_RevokedNeverFailed ==
    (turn # Idle /\ turn.was_cancelled) => turn.msgStatus # "FAILED"

\* ---------------------------------------------------------------------
\* Checkpoints
\* ---------------------------------------------------------------------

CreateReturned ==
    ck # Idle /\ ck.last.op = "create" /\ ck.last.result = "returned"

NoFailure == ck # Idle /\ ck.failures = 0

\* After a creation, list returns at most the retention limit, and exactly
\* the limit when the creation made one checkpoint more than the limit.
Try_AtMostLimitListed ==
    (CreateReturned /\ NoFailure) =>
        /\ Len(ListCheckpoints(ck.base, ck.cps)) <= MAX_CHECKPOINTS_PER_SANDBOX
        /\ Len(ck.last.before) = MAX_CHECKPOINTS_PER_SANDBOX + 1
              => Len(ListCheckpoints(ck.base, ck.cps))
                    = MAX_CHECKPOINTS_PER_SANDBOX

\* A creation that deletes a checkpoint deletes the one created first.
Try_OldestDeleted ==
    (CreateReturned /\ NoFailure /\ ck.last.deleted # {}) =>
        ck.last.deleted = {ck.last.before[1]}

\* C14: with retention limit N, after every successful creation list
\* returns at most N checkpoints, exactly N after creation N+1, and the
\* checkpoint that was deleted is the oldest by creation time.
C14_RetentionDeletesOldest ==
    Try_AtMostLimitListed /\ Try_OldestDeleted

\* C15: restoring a checkpoint brings the working tree back to the state
\* it had when the checkpoint was created, on all paths the exclusion
\* patterns do not cover, whatever was created, changed or deleted since.
C15_RestoreYieldsCheckpointedTree ==
    (NoFailure /\ ck.last.op = "restore" /\ ck.last.result = "returned") =>
        View(ck.ino, ck.root) = ck.snap[ck.last.id]

\* The same for the files alone, leaving the directories aside.
Try_RestoreYieldsCheckpointedFiles ==
    (NoFailure /\ ck.last.op = "restore" /\ ck.last.result = "returned") =>
        View(ck.ino, ck.root).files = ck.snap[ck.last.id].files

C17_UnchangedFilesAreLinked ==
    (CreateReturned /\ NoFailure /\ ck.last.after # 0
        /\ ck.cps[ck.last.id].exists /\ ck.cps[ck.last.after].exists) =>
        ck.cps[ck.last.id].files = ck.cps[ck.last.after].files

\* The same when A is the only other checkpoint.
Try_LinkedToOnlyPredecessor ==
    (CreateReturned /\ NoFailure /\ ck.last.after # 0
        /\ Len(ck.last.before) = 2
        /\ ck.cps[ck.last.id].exists /\ ck.cps[ck.last.after].exists) =>
        ck.cps[ck.last.id].files = ck.cps[ck.last.after].files

\* C18: a creation whose rsync failed raises to its caller and leaves no
\* directory for its checkpoint id, on either backend.
C18_FailedCreateLeavesNothing ==
    (ck # Idle /\ ck.last.op = "create" /\ ~ck.last.synced) =>
        /\ ck.last.result = "raised"
        /\ ~ck.cps[ck.last.id].exists

\* The same on E2B alone.
Try_FailedCreateLeavesNothingE2B ==
    (ck # Idle /\ ck.backend = "e2b") => C18_FailedCreateLeavesNothing

\* ---------------------------------------------------------------------
\* Drop-oldest bounded queues
\* ---------------------------------------------------------------------

\* The last n items of s.
LastN(s, n) == IF Len(s) <= n THEN s ELSE SubSeq(s, Len(s) - n + 1, Len(s))

\* C19: with no consumer taking items in between, the queue holds the
\* most recently pushed items, as many as its capacity, in push order; it
\* never holds more, and every push returns at once with its item queued.
C19_KeepsMostRecent ==
    oq # Idle =>
        /\ oq.items = LastN(oq.pushed, QueueMaxSize)
        /\ Len(oq.items) <= QueueMaxSize
        /\ oq.result \in {"none", "True", "None"}

\* More items were pushed than the queue holds, and the oldest are gone.
C19_Witness ==
    /\ oq # Idle
    /\ Len(oq.pushed) = MaxPushes /\ MaxPushes > QueueMaxSize
    /\ oq.pushed[1] # oq.pushed[MaxPushes - QueueMaxSize + 1]
    /\ Len(oq.items) = QueueMaxSize
    /\ oq.items[1] = oq.pushed[MaxPushes - QueueMaxSize + 1]

\* ---------------------------------------------------------------------
\* Terminal websocket
\* ---------------------------------------------------------------------

LiveInputTasks == {s \in SessionIds : InputLive(s)}

LiveOutputTasks == {s \in SessionIds : OutputLive(s)}

\* C20: at every moment at most one PTY is running and tracked for the
\* connection, with at most one live input task and one live output
\* task, and when start comes to create the new PTY the previous session
\* is stopped: no task live, no PTY tracked, no PTY running.
C20_AtMostOneLiveSession ==
    ts # Idle =>
        /\ Cardinality(ts.alive) <= 1
        /\ Cardinality(ts.tracked) <= 1
        /\ Cardinality(LiveInputTasks) <= 1
        /\ Cardinality(LiveOutputTasks) <= 1
        /\ ts.pc = "create" =>
              /\ LiveInputTasks = {} /\ LiveOutputTasks = {}
              /\ ts.tracked = {} /\ ts.alive = {}

\* At every moment at most one PTY session is tracked, with at most one
\* live input task and one live output task, and when start comes to
\* create the new PTY no task is live and no PTY is tracked.
Try_AtMostOneTrackedSession ==
    ts # Idle =>
        /\ Cardinality(ts.tracked) <= 1
        /\ Cardinality(LiveInputTasks) <= 1
        /\ Cardinality(LiveOutputTasks) <= 1
        /\ ts.pc = "create" =>
              /\ LiveInputTasks = {} /\ LiveOutputTasks = {}
              /\ ts.tracked = {}

\* As long as no sandbox operation has raised, at most one PTY is
\* running, and none when start comes to create the new one.
Try_AtMostOneRunningWithoutFaults ==
    (ts # Idle /\ ts.faults = 0) =>
        /\ Cardinality(ts.alive) <= 1
        /\ ts.pc = "create" => ts.alive = {}

\* C21: no exception ever leaves TerminalSession.stop, whatever the
\* session has been through: tasks that have ended, a PTY that is gone, a
\* kill that failed, a stop that follows a stop.
C21_StopNeverRaises ==
    ts # Idle => ~ts.raised

\* stop() has run to its end on a session whose output task had ended
\* after an error and whose PTY was no longer tracked.
C21_Witness ==
    /\ ts # Idle
    /\ ts.pc = "closed"
    /\ ts.created = 1 /\ ts.out_state[1] = "done"

\* The stop() of a second init ran, create_pty_session raised, and the
\* stop() of the finally block ran again on the stopped session.
C21_WitnessRepeated ==
    /\ ts # Idle
    /\ ts.pc = "closed"
    /\ ts.inits = 2 /\ ts.created = 1 /\ ts.faults = 1
    /\ ts.in_state[1] = "cancelled"

\* ---------------------------------------------------------------------
\* PTY operations of a provider
\* ---------------------------------------------------------------------

\* The calls made on a session that was not tracked, or was being killed
\* by another task, when they were made.
OnGoneSession(o) == pty.ops[o].at_call \in {"untracked", "cleaning"}

\* A call on a session that is not tracked returns in the step that makes
\* it and leaves every session as it was.
UntrackedIsNoOp ==
    \A o \in Tasks :
        (/\ pty'.ops[o] # pty.ops[o]
         /\ pty'.ops[o].at_call = "untracked"
         /\ pty.ops[o].pc \in {"idle", "returned", "raised"}) =>
            /\ pty'.ops[o].pc = "returned"
            /\ pty'.sessions = pty.sessions

\* C22: send_pty_input, resize_pty and kill_pty on a session that is not
\* tracked, or that another task is killing, return without raising, and
\* on a session that is not tracked they change no session.
C22_GoneSessionIsNoOp ==
    /\ [](pty # Idle => \A o \in Tasks :
                           OnGoneSession(o) => pty.ops[o].pc # "raised")
    /\ [][pty # Idle => UntrackedIsNoOp]_vars

\* A call on a session that is not tracked when the call is made returns
\* at once, raises nothing and changes no session.
Try_UntrackedAtCallIsNoOp ==
    /\ [](pty # Idle => \A o \in Tasks :
              pty.ops[o].at_call = "untracked" => pty.ops[o].pc = "returned")
    /\ [][pty # Idle => UntrackedIsNoOp]_vars

\* On E2B no call on a session that is not tracked or is being killed
\* raises.
Try_GoneSessionNeverRaisesE2B ==
    (pty # Idle /\ pty.backend = "e2b") =>
        \A o \in Tasks : OnGoneSession(o) => pty.ops[o].pc # "raised"

\* On Docker a kill_pty on a session that another task is killing does
\* not raise.
Try_SecondKillNeverRaises ==
    pty # Idle =>
        \A o \in Tasks :
            (pty.ops[o].kind = "kill" /\ OnGoneSession(o)) =>
                pty.ops[o].pc # "raised"

\* C23: every resize sent to the backend has rows >= 1 and cols >= 1, and
\* a resize_pty(0, 0) that has returned on a live session left it at
\* (1, 1) or was followed by another resize.
C23_ResizeIsClamped ==
    pty # Idle =>
        /\ \A size \in pty.forwarded : size[1] >= 1 /\ size[2] >= 1
        /\ \A o \in Tasks :
              (/\ pty.ops[o].kind = "resize"
               /\ pty.ops[o].at_call # "untracked"
               /\ pty.ops[o].pc = "returned") =>
                  Clamp(<<pty.ops[o].rows, pty.ops[o].cols>>) \in pty.forwarded

\* resize_pty(0, 0) has returned and the backend was told (1, 1).
C23_Witness ==
    /\ pty # Idle
    /\ \E o \in Tasks :
          /\ pty.ops[o].kind = "resize" /\ pty.ops[o].pc = "returned"
          /\ pty.ops[o].at_call = "tracked"
          /\ pty.ops[o].rows = 0 /\ pty.ops[o].cols = 0
          /\ pty.sessions[pty.ops[o].s].size = <<1, 1>>
          /\ <<1, 1>> \in pty.forwarded

\* ---------------------------------------------------------------------
\* Retried backend operations
\* ---------------------------------------------------------------------

\* A 401 or 403 answer of the backend.
AuthClass(e) == ~e.ok /\ e.status \in {401, 403}

\* C24: a retried operation is attempted at most 3 times; every attempt
\* but the last ended with a failure that is not an auth rejection; an
\* auth rejection is the last attempt and is raised; a success is the
\* last attempt and is returned.
C24_RetryAtMostThreeTimes ==
    rt # Idle =>
        /\ Len(rt.tried) <= 3
        /\ \A i \in 1 .. Len(rt.tried) :
              /\ i < Len(rt.tried) =>
                    ~rt.tried[i].ok /\ ~AuthClass(rt.tried[i])
              /\ AuthClass(rt.tried[i]) =>
                    i = Len(rt.tried) /\ rt.pc = "raised"
              /\ rt.tried[i].ok =>
                    i = Len(rt.tried) /\ rt.pc = "returned"
        /\ rt.pc = "sleep" => Len(rt.tried) < 3

\* Two attempts failed with server errors and the third was rejected
\* with 401.
C24_Witness ==
    /\ rt # Idle
    /\ Len(rt.tried) = 3 /\ rt.pc = "raised"
    /\ rt.tried[1].status = 500 /\ rt.tried[2].status = 0
    /\ rt.tried[3].status = 401

\* ---------------------------------------------------------------------
\* Sandbox handles of a provider
\* ---------------------------------------------------------------------

\* C25: delete_sandbox never raises, whether the sandbox is there, is
\* gone or was deleted before, and whether or not the backend fails
\* while it is being deleted.
C25_DeleteNeverRaises ==
    sb # Idle =>
        \A o \in Tasks : sb.calls[o].kind = "delete" => sb.calls[o].pc # "raised"

\* delete_sandbox raises nothing but the failure of the kill: for a
\* sandbox that cannot be found it returns.
Try_DeleteRaisesOnlyKillFailure ==
    sb # Idle =>
        \A o \in Tasks :
            (sb.calls[o].kind = "delete" /\ sb.calls[o].pc = "raised") =>
                sb.calls[o].result = "error"

\* On Docker delete_sandbox never raises.
Try_DeleteNeverRaisesDocker ==
    (sb # Idle /\ sb.backend = "docker") =>
        \A o \in Tasks : sb.calls[o].kind = "delete" => sb.calls[o].pc # "raised"

\* C28: as long as the sandbox is not being deleted, of the calls that
\* find the cached handle not live none fails on the cache entry another
\* call has removed or replaced, and each that returns leaves with a
\* handle and a handle in the cache.
C28_ConcurrentReconnect ==
    (sb # Idle /\ sb.deletes = 0) =>
        \A o \in Tasks :
            (sb.calls[o].kind = "get" /\ sb.calls[o].found_dead) =>
                /\ sb.calls[o].result # "KeyError"
                /\ (sb.calls[o].pc = "returned" /\ sb.exists) =>
                      /\ sb.calls[o].result = "handle"
                      /\ sb.cache # 0

\* A call that finds the cached handle not live while no other call is
\* between its liveness check and its connect ends with a new handle in
\* the cache.
Try_SingleReconnect ==
    sb # Idle =>
        \A o \in Tasks :
            (/\ sb.calls[o].kind = "get" /\ sb.calls[o].found_dead
             /\ \A p \in Tasks \ {o} : sb.calls[p].kind = "none") =>
                /\ sb.calls[o].pc # "raised" \/ ~sb.exists
                /\ sb.calls[o].result # "KeyError"

\* ---------------------------------------------------------------------
\* normalize_path
\* ---------------------------------------------------------------------

\* The path is the home directory or lies below it.
InsideHome(path) ==
    \/ path = HomeDir
    \/ StartsWith(path, HomeDir \o Slash)

\* C26: whatever the file_path, normalize_path returns an absolute path
\* inside /home/user.
C26_NormalizedInsideHome ==
    (np # Idle /\ np.pc = "returned") =>
        /\ StartsWith(np.result, Slash)
        /\ InsideHome(np.result)

\* normalize_path returns an absolute path without "." components, empty
\* components or a trailing slash.
Try_NormalizedIsAbsolute ==
    (np # Idle /\ np.pc = "returned") =>
        /\ StartsWith(np.result, Slash)
        /\ ~StartsWith(np.result, <<"/", "/">>)
        /\ \A i \in 1 .. Len(SplitSlash(np.result, <<>>)) :
              i > 1 => SplitSlash(np.result, <<>>)[i] \notin {<<".">>}
        /\ np.result # Slash => np.result[Len(np.result)] # "/"

\* A file_path without ".." components that does not begin with the
\* characters of the home directory is put inside /home/user.
Try_PlainPathInsideHome ==
    (/\ np # Idle /\ np.pc = "returned"
     /\ \A i \in 1 .. Len(SplitSlash(np.file_path, <<>>)) :
           SplitSlash(np.file_path, <<>>)[i] # DotDot
     /\ ~StartsWith(PurePosixPathStr(np.file_path), HomeDir)) =>
        InsideHome(np.result)

\* ---------------------------------------------------------------------
\* Secrets
\* ---------------------------------------------------------------------

\* The entries of keys other than key, in order.
OtherEntries(entries, key) ==
    SelectSeq(entries, LAMBDA entry : entry.key # key)

HasEntry(entries, key, value) ==
    \E i \in 1 .. Len(entries) :
        entries[i] = [key |-> key, value |-> value]

\* delete_secret(k) leaves no entry of k and the entries of other keys as
\* they were.
DeleteRemovesOnlyKey ==
    sec.last.op = "delete" =>
        /\ OtherEntries(GetSecrets(sec.bashrc), sec.last.key)
               = GetSecrets(sec.bashrc)
        /\ OtherEntries(GetSecrets(sec.bashrc), sec.last.key)
               = OtherEntries(sec.before, sec.last.key)

\* C27: after add_secret(k, v) get_secrets has the entry (k, v); after
\* delete_secret(k) it has no entry of k and the entries of the other keys
\* are unchanged.
C27_AddThenGetDeleteThenGone ==
    sec # Idle =>
        /\ sec.last.op = "add" =>
               HasEntry(GetSecrets(sec.bashrc), sec.last.key, sec.last.value)
        /\ DeleteRemovesOnlyKey

\* The delete half of C27 holds for every key, "." in the key included.
Try_DeleteRemovesOnlyKey ==
    sec # Idle => DeleteRemovesOnlyKey

\* The add half of C27 holds for a value without quote characters and a
\* key that is not a system variable; it also leaves the other entries be.
Try_AddOfPlainValueIsRead ==
    (/\ sec # Idle /\ sec.last.op = "add"
     /\ sec.last.key \notin SystemVariables
     /\ \A i \in 1 .. Len(sec.last.value) :
           sec.last.value[i] \notin {"'", "\""}) =>
        /\ HasEntry(GetSecrets(sec.bashrc), sec.last.key, sec.last.value)
        /\ GetSecrets(sec.bashrc)
               = Append(sec.before, [key |-> sec.last.key,
                                     value |-> sec.last.value])

\* An add_secret whose value has a single quote appends nothing.
Try_AddOfQuoteAppendsNothing ==
    (/\ sec # Idle /\ sec.last.op = "add"
     /\ sec.last.value = <<"x", "'", "x">>) =>
        GetSecrets(sec.bashrc) = sec.before

\* ---------------------------------------------------------------------
\* PTY output forwarding
\* ---------------------------------------------------------------------

\* The ids of the chunks forwarded, in the order the client got them.
RECURSIVE ForwardedIds(_)
ForwardedIds(sent) ==
    IF sent = <<>> THEN <<>> ELSE Head(sent).ids \o ForwardedIds(Tail(sent))

\* The decoded texts of the chunks ids, joined.
RECURSIVE ChunkTextOf(_, _)
ChunkTextOf(chunks, ids) ==
    IF ids = <<>> THEN <<>>
    ELSE DecodeUtf8(chunks[Head(ids)]) \o ChunkTextOf(chunks, Tail(ids))

\* C29: the chunks forwarded are in arrival order and none is forwarded
\* twice; a payload is its chunks joined in that order; a chunk missing
\* before a forwarded one was taken off the full queue as its oldest item.
C29_ForwardedInArrivalOrder ==
    fw # Idle =>
        LET ids == ForwardedIds(fw.sent)
        IN  /\ \A i, j \in 1 .. Len(ids) : i < j => ids[i] < ids[j]
            /\ \A p \in 1 .. Len(fw.sent) :
                  /\ fw.sent[p].ids # <<>>
                  /\ fw.sent[p].data = ChunkTextOf(fw.chunks, fw.sent[p].ids)
            /\ \A c \in 1 .. Len(fw.chunks) :
                  (/\ ids # <<>> /\ c < ids[Len(ids)]
                   /\ \A i \in 1 .. Len(ids) : ids[i] # c) =>
                      c \in fw.dropped
            /\ \A d \in fw.dropped :
                  /\ \A i \in 1 .. Len(fw.items) : d < fw.items[i].id
                  /\ \A i \in 1 .. Len(ids) : ids[i] # d

\* A batch of several chunks has been forwarded after a chunk was dropped
\* from the full queue, and a chunk older than the dropped one was
\* forwarded before.
C29_Witness ==
    /\ fw # Idle
    /\ Len(fw.sent) >= 2
    /\ Len(fw.sent[Len(fw.sent)].ids) >= 2
    /\ \E d \in fw.dropped :
          /\ fw.sent[1].ids[1] < d
          /\ d < fw.sent[Len(fw.sent)].ids[1]

\* While the forwarder runs every chunk that arrived is forwarded, in the
\* batch being sent, in the queue or dropped on overflow.
Try_EveryChunkAccounted ==
    (fw # Idle /\ fw.pc \in {"get", "send"}) =>
        \A c \in 1 .. Len(fw.chunks) :
            \/ \E i \in 1 .. Len(ForwardedIds(fw.sent)) :
                  ForwardedIds(fw.sent)[i] = c
            \/ \E i \in 1 .. Len(fw.buffer) : fw.buffer[i].id = c
            \/ \E i \in 1 .. Len(fw.items) : fw.items[i].id = c
            \/ c \in fw.dropped

\* Reachable: a two-byte character split over two chunks has reached the
\* client as two replacement characters, each chunk being decoded alone.
SplitCharacterReplaced ==
    /\ fw # Idle
    /\ \E p \in 1 .. Len(fw.sent) :
          \E i \in 1 .. Len(fw.sent[p].ids) - 1 :
              /\ fw.chunks[fw.sent[p].ids[i]] = <<"L">>
              /\ fw.sent[p].ids[i + 1] = fw.sent[p].ids[i] + 1
              /\ fw.chunks[fw.sent[p].ids[i + 1]] = <<"C", "a">>
              /\ fw.sent[p].data # ChunkTextOf(<<<<"L", "C", "a">>>>, <<1>>)

\* ---------------------------------------------------------------------
\* Checkpoint ids
\* ---------------------------------------------------------------------

\* The last call named a checkpoint by an id that is no UUID.
MalformedIdCall ==
    /\ cv # Idle
    /\ cv.last.entry \in EntryPoints
    /\ ~UuidParses(cv.last.id)

\* C30: on every entry point that builds a checkpoint path from the id, a
\* call with a malformed id fails before any command is run in the sandbox
\* and leaves the checkpoints and the working tree as they were.
C30_MalformedIdFailsFirst ==
    MalformedIdCall =>
        /\ cv.last.result = "raised"
        /\ cv.last.commands = 0
        /\ ~cv.last.changed

\* SandboxService.create_checkpoint and restore_checkpoint do as C30 says.
Try_ServiceValidatesFirst ==
    (/\ MalformedIdCall
     /\ cv.last.entry \in {"SandboxService.create_checkpoint",
                           "SandboxService.restore_checkpoint"}) =>
        /\ cv.last.result = "raised"
        /\ cv.last.commands = 0
        /\ ~cv.last.changed

\* SandboxService.restore_to_message fails on a malformed id and changes
\* nothing, though only after a command has run.
Try_RestoreToMessageChangesNothing ==
    (/\ MalformedIdCall
     /\ cv.last.entry = "SandboxService.restore_to_message") =>
        /\ cv.last.result = "raised"
        /\ cv.last.commands >= 1
        /\ ~cv.last.changed

\* Reachable: the provider has made a checkpoint directory under a
\* malformed id.
MalformedCheckpointMade ==
    /\ MalformedIdCall
    /\ cv.last.entry = "SandboxProvider.create_checkpoint"
    /\ cv.last.result = "returned"
    /\ cv.last.changed
    /\ cv.cps[<<"z">>].exists

\* Reachable: the provider has restored the working tree from a directory
\* named by a malformed id.
MalformedCheckpointRestored ==
    /\ MalformedIdCall
    /\ cv.last.entry = "SandboxProvider.restore_checkpoint"
    /\ cv.last.result = "returned"
    /\ cv.last.changed

\* Reachable: _cleanup_old_checkpoints has removed a directory.
OldCheckpointRemoved ==
    /\ cv # Idle
    /\ cv.last.entry = "SandboxProvider.create_checkpoint"
    /\ cv.last.commands > 4
    /\ Cardinality({c \in DirNames : cv.cps[c].exists})
           = MAX_CHECKPOINTS_PER_SANDBOX

\* get_secrets has no two entries of one key.
OneEntryPerKey(entries) ==
    \A i, j \in 1 .. Len(entries) :
        entries[i].key = entries[j].key => i = j

\* C40: after any sequence of add_secret and delete_secret, get_secrets has
\* at most one entry per key; adding a key that is present leaves a single
\* entry, with the new value.
C40_OneEntryPerKey ==
    sec # Idle =>
        /\ OneEntryPerKey(GetSecrets(sec.bashrc))
        /\ (/\ sec.last.op = "add"
            /\ \E i \in 1 .. Len(sec.before) :
                  sec.before[i].key = sec.last.key) =>
               \A i \in 1 .. Len(GetSecrets(sec.bashrc)) :
                   GetSecrets(sec.bashrc)[i].key = sec.last.key =>
                       GetSecrets(sec.bashrc)[i].value = sec.last.value

\* add_secret of a key that get_secrets did not list leaves one entry of it
\* at most.
Try_AddOfNewKeyIsSingle ==
    (/\ sec # Idle /\ sec.last.op = "add"
     /\ OneEntryPerKey(sec.before)
     /\ \A i \in 1 .. Len(sec.before) : sec.before[i].key # sec.last.key) =>
        OneEntryPerKey(GetSecrets(sec.bashrc))

\* add_secret only ever appends: the entries listed before are all still
\* listed, in their places.
Try_AddKeepsOldEntries ==
    (sec # Idle /\ sec.last.op = "add") =>
        /\ Len(GetSecrets(sec.bashrc)) >= Len(sec.before)
        /\ SubSeq(GetSecrets(sec.bashrc), 1, Len(sec.before)) = sec.before

\* ---------------------------------------------------------------------
\* Foreground execute_command on the E2B backend
\* ---------------------------------------------------------------------

\* C34: one foreground execute call runs the command at most once in the
\* sandbox; a command that ran and exited with a non-zero code is not run
\* again.
C34_CommandRunsAtMostOnce ==
    ex # Idle => ex.runs <= 1

\* Without a non-zero exit the command runs once at most: attempts the
\* backend did not take are the only ones repeated.
Try_RunsOnceUnlessNonZeroExit ==
    (/\ ex # Idle
     /\ \A i \in 1 .. Len(ex.tried) :
           ex.tried[i].ran => ex.tried[i].ok) => ex.runs <= 1

\* The command never runs more than MAX_RETRIES times.
Try_RunsAtMostMaxRetries ==
    ex # Idle => ex.runs <= MAX_RETRIES

\* A non-zero exit never comes back as a CommandResult: the caller gets the
\* exception or the result of a later run.
Try_NonZeroExitIsNeverReturned ==
    (ex # Idle /\ ex.pc = "returned") => ex.result = 0

\* A non-zero exit whose message holds "401" or "403" is not retried.
Try_AuthLookingExitRunsOnce ==
    (/\ ex # Idle /\ Len(ex.tried) >= 1
     /\ ex.tried[1].ran /\ ~IsRetryableError(ex.tried[1])) => ex.runs <= 1

\* ---------------------------------------------------------------------
\* list_checkpoints and the hard-link base
\* ---------------------------------------------------------------------

NewestFirst(created) ==
    [i \in 1 .. Len(created) |-> created[Len(created) + 1 - i]]

\* C37: list returns every existing checkpoint once, newest first by
\* creation: its first element is the checkpoint created last, equal
\* timestamps included.
C37_ListNewestFirstByCreation ==
    NoFailure =>
        ListCheckpoints(ck.base, ck.cps) = NewestFirst(ck.created)

\* list returns every existing checkpoint, and each once.
Try_ListHasEachOnce ==
    NoFailure =>
        LET l == ListCheckpoints(ck.base, ck.cps)
        IN  /\ {l[i] : i \in 1 .. Len(l)}
                   = {c \in CheckpointIds : ck.cps[c].exists}
            /\ \A i, j \in 1 .. Len(l) : l[i] = l[j] => i = j

\* list is ordered by the modification times of the directories, newest
\* first.
Try_ListOrderedByDirectoryTime ==
    NoFailure =>
        LET l == ListCheckpoints(ck.base, ck.cps)
        IN  \A i, j \in 1 .. Len(l) :
                i < j => ck.cps[l[i]].mtime >= ck.cps[l[j]].mtime

\* list is newest first by creation while every checkpoint was made after
\* an entry of /home/user was added or removed since the one before, and
\* none was restored.
Try_ListNewestFirstWhenTimesDiffer ==
    (/\ NoFailure /\ ck.restores = 0
     /\ \A c, o \in CheckpointIds :
           (ck.cps[c].exists /\ ck.cps[o].exists /\ c # o) =>
               ck.cps[c].mtime # ck.cps[o].mtime) =>
        ListCheckpoints(ck.base, ck.cps) = NewestFirst(ck.created)

\* C39: the checkpoint a create uses as hard-link base is an existing
\* checkpoint other than the one being written, also when the id is that
\* of the newest existing checkpoint.
C39_LinkBaseIsAnotherCheckpoint ==
    (lb # Idle /\ lb.last.id # 0 /\ lb.last.link # 0) =>
        /\ lb.last.link \in lb.last.existed
        /\ lb.last.link # lb.last.id

\* The base is an existing checkpoint, and another one whenever the id had
\* no directory yet.
Try_LinkBaseExistsAndDiffersForNewId ==
    (lb # Idle /\ lb.last.id # 0 /\ lb.last.link # 0) =>
        /\ lb.last.link \in lb.last.existed
        /\ lb.last.id \notin lb.last.existed => lb.last.link # lb.last.id

\* A create has a base exactly when a checkpoint existed.
Try_LinkBaseWheneverOneExists ==
    (lb # Idle /\ lb.last.id # 0) =>
        (lb.last.link # 0 <=> lb.last.existed # {})

\* Reachable: other checkpoints existed and still the create took its own
\* directory as base.
OwnDirectoryAsLinkBase ==
    /\ lb # Idle
    /\ lb.last.id # 0
    /\ lb.last.link = lb.last.id
    /\ lb.last.existed \ {lb.last.id} # {}

\* ---------------------------------------------------------------------
\* Docker exec-attach framing
\* ---------------------------------------------------------------------

\* The length a frame header declares: bytes 5 to 8, big-endian.
DeclaredLength(header) ==
    ((header[5] * 256 + header[6]) * 256 + header[7]) * 256 + header[8]

\* The whole frames of a stream, in order: [type, payload].  With
\* limit >= 0 the frames end before the first header that declares more
\* than limit bytes.
RECURSIVE StreamFrames(_, _)
StreamFrames(stream, limit) ==
    IF Len(stream) < 8 THEN <<>>
    ELSE LET n == DeclaredLength(stream)
         IN  IF limit >= 0 /\ n > limit THEN <<>>
             ELSE IF Len(stream) < 8 + n THEN <<>>
             ELSE <<[type |-> stream[1],
                     payload |-> SubSeq(stream, 9, 8 + n)]>>
                  \o StreamFrames(SubSeq(stream, 9 + n, Len(stream)), limit)

\* The decoded payloads of the frames of one stream type.
PayloadsOf(frames, type) ==
    LET sel == SelectSeq(frames, LAMBDA f : f.type = type)
    IN  [i \in 1 .. Len(sel) |-> Decode(sel[i].payload)]

PrefixOf(a, b) == Len(a) <= Len(b) /\ SubSeq(b, 1, Len(a)) = a

\* Every chunk the reader has put into the parser queue so far.
PutToQueue ==
    dk.received \o SelectSeq(dk.queue, LAMBDA c : c # SENTINEL)

\* What has been put into the queue and given to the stderr callback is
\* the start of the stdout and of the stderr payloads of frames, and all of
\* them once the stream has been read to its end.
DeliveredAre(frames) ==
    /\ PrefixOf(PutToQueue, PayloadsOf(frames, StdoutStream))
    /\ PrefixOf(dk.stderr, PayloadsOf(frames, StderrStream))
    /\ dk.stream = <<>> =>
          /\ PutToQueue = PayloadsOf(frames, StdoutStream)
          /\ dk.stderr = PayloadsOf(frames, StderrStream)

Try_FramesBeforeOversizeDelivered ==
    (dk # Idle /\ dk.oversized) =>
        /\ PrefixOf(PayloadsOf(StreamFrames(dk.whole, MaxBufferSize),
                               StdoutStream), PutToQueue)
        /\ PrefixOf(PayloadsOf(StreamFrames(dk.whole, MaxBufferSize),
                               StderrStream), dk.stderr)

\* ---------------------------------------------------------------------
\* Chunk boundaries of the CLI output
\* ---------------------------------------------------------------------

\* What the generator yields when the whole output arrives as one chunk.
YieldedWhole == FeedAll(ParserStart, <<par.text>>).yielded

\* The positions after which the output was cut: text[p] ended one chunk
\* and text[p + 1] began the next.
RECURSIVE CutsOf(_, _)
CutsOf(chunks, before) ==
    IF Len(chunks) <= 1 THEN {}
    ELSE {before + Len(chunks[1])}
             \cup CutsOf(Tail(chunks), before + Len(chunks[1]))

\* C35: the objects yielded depend only on the concatenated output: a
\* finished run yields the same objects in the same order as the run over
\* the same output in one chunk, wherever the output was cut.
C35_ChunkingDoesNotMatter ==
    (par # Idle /\ par.phase # "running")
        => par.st.yielded = YieldedWhole

\* A cut neither splits an escape sequence nor has a space on either side.
CleanCut(p) ==
    /\ ~(par.mask[p] /\ par.mask[p + 1])
    /\ par.text[p] # " " /\ par.text[p + 1] # " "

\* Runs whose cuts are all clean yield what the uncut output yields.
Try_CleanCutsDoNotMatter ==
    (par # Idle /\ par.phase # "running"
       /\ \A p \in CutsOf(par.fed, 0) : CleanCut(p))
        => par.st.yielded = YieldedWhole

\* An output without escape sequences was cut after the space inside a JSON
\* string, and the run ended having yielded other objects than the uncut
\* output yields.
StringCutAtSpaceChanged ==
    /\ par # Idle /\ par.phase = "ended"
    /\ \A i \in 1..Len(par.mask) : ~par.mask[i]
    /\ \E p \in CutsOf(par.fed, 0) : par.text[p] = " "
    /\ Len(par.st.yielded) = Len(YieldedWhole)
    /\ par.st.yielded # YieldedWhole

\* An output was cut inside an escape sequence and nowhere else, and the
\* run raised having yielded fewer objects than the uncut output yields.
EscapeCutChanged ==
    /\ par # Idle /\ par.phase = "raised"
    /\ CutsOf(par.fed, 0) # {}
    /\ \A p \in CutsOf(par.fed, 0) : par.mask[p] /\ par.mask[p + 1]
    /\ Len(par.st.yielded) < Len(YieldedWhole)

\* ---------------------------------------------------------------------
\* The revoked flag across turns
\* ---------------------------------------------------------------------

\* C31: a revoked flag written for one turn never interrupts a later turn:
\* whatever the interleaving of the cancel endpoint with the end-of-turn
\* cleanup and the start of the next turn, no watcher observes a flag that
\* was set before its turn began.
C31_NoFlagFromBeforeTheTurn ==
    rv # Idle => \A o \in rv.observed : o.during >= o.turn

\* A flag a watcher observes was written by a request that read the task
\* id of the watcher's turn or of an earlier one, never later than during
\* that turn.
Try_ObservedFlagIsNotFromTheFuture ==
    rv # Idle =>
        \A o \in rv.observed : o.for >= 1 /\ o.for <= o.turn
                                 /\ o.during <= o.turn

\* A request that found no task key writes no flag.
Try_NoTaskNoFlag ==
    rv # Idle =>
        \A c \in 1..MaxCancels :
            rv.cancels[c].task_id = 0 => rv.cancels[c].pc # "read"

\* The watcher of the second turn observed the flag that a request wrote
\* between the cleanup of the first turn and the start of the second,
\* having read the first turn's task id.
StaleFlagInterruptsNextTurn ==
    /\ rv # Idle
    /\ [turn |-> 2, for |-> 1, during |-> 1] \in rv.observed

\* The watcher of the second turn observed a flag written during that
\* turn by a request that had read the first turn's task id.
LateWriteInterruptsNextTurn ==
    /\ rv # Idle
    /\ [turn |-> 2, for |-> 1, during |-> 2] \in rv.observed

\* ---------------------------------------------------------------------
\* The end of the stream when the process ends
\* ---------------------------------------------------------------------

\* The CLI process is over, it wrote no result object and no close call
\* has begun.
EndedWithoutResult ==
    /\ tr.proc \in {"exit0", "exit1", "gone"}
    /\ tr.scenario.script # "result"
    /\ \A i \in 1..MaxCloses : tr.closePc[i] = "idle"

ConsumerStopped == tr.conPc \in {"ended", "raised"}

\* C32: when the CLI process ends without a result object and close() is
\* not called, a consumer that keeps iterating read_messages eventually
\* stops, whatever was in the queue when the process ended.
C32_ConsumerStopsAfterProcessEnds ==
    (tr # Idle /\ tr.conPc = "running" /\ EndedWithoutResult)
        ~> ConsumerStopped

\* The same for a process that wrote less than the queue holds: the queue
\* has room for the sentinel and the consumer stops.
Try_ConsumerStopsAfterShortOutput ==
    (tr # Idle /\ tr.conPc = "running" /\ EndedWithoutResult
       /\ tr.scenario.script \in {"short", "cut"})
        ~> ConsumerStopped

\* The process is over without a result and without close, the monitor and
\* what fed the queue are over, the queue is empty and the consumer waits
\* in get(): nothing will ever be put.
ConsumerWaitsForEver ==
    /\ tr # Idle
    /\ EndedWithoutResult
    /\ tr.conPc = "running"
    /\ tr.queue = <<>> /\ tr.unread = <<>>
    /\ tr.monPc = "done"
    /\ tr.rdPc \in {"done", "recv"}
    /\ tr.backend = "docker" => tr.rdPc = "done"

\* ---------------------------------------------------------------------
\* The terminal entry of a turn
\* ---------------------------------------------------------------------

\* The positions of the terminal entries (complete or error) of a log.
TerminalEntries(log) ==
    {i \in 1..Len(log) : log[i] \in {"complete", "error"}}

\* At most one terminal entry, and nothing after it.
TerminalEntryIsLast ==
    /\ Cardinality(TerminalEntries(turn.log)) <= 1
    /\ \A i \in TerminalEntries(turn.log) : i = Len(turn.log)

\* C33: every started turn eventually appends exactly one terminal entry
\* (complete or error) to its chat's event log and no content entry after
\* it, whether the turn completes, fails or is cancelled.
C33_OneTerminalEntryEventually ==
    /\ (turn # Idle) ~> (Cardinality(TerminalEntries(turn.log)) = 1)
    /\ [](turn # Idle => TerminalEntryIsLast)

\* Every started turn is eventually over.
Try_TurnEventuallyOver ==
    (turn # Idle) ~> (turn.mainPc = "done")

\* The log never holds more than one terminal entry and nothing follows
\* one; a turn that is over has one unless CancelledError left
\* _drain_ai_stream.
Try_TerminalEntryUnlessEscaped ==
    turn # Idle =>
        /\ TerminalEntryIsLast
        /\ (turn.mainPc = "done" /\ turn.outcome # "cancelled")
              => Cardinality(TerminalEntries(turn.log)) = 1

\* A turn is over and its log holds content entries but no terminal entry.
TurnOverWithoutTerminalEntry ==
    /\ turn # Idle
    /\ turn.mainPc = "done"
    /\ turn.log # <<>>
    /\ TerminalEntries(turn.log) = {}

\* ---------------------------------------------------------------------
\* What remains of a finished terminal connection
\* ---------------------------------------------------------------------

\* The connection has ended: the handler is in its finally block or past
\* it.
ConnectionEnded == ts.ctx = "finally" \/ ts.pc = "closed"

\* No task of the connection is running.
NoTaskRemains ==
    \A s \in SessionIds : ~InputLive(s) /\ ~OutputLive(s)

\* No PTY of the connection is tracked by the service.
NoSessionTracked == ts.tracked = {}

\* No PTY process of the connection runs in the sandbox.
NoPtyAlive == ts.alive = {}

\* C36: when a terminal connection ends for any reason, its PTY session is
\* eventually killed and removed from the session tracking and its input
\* and output tasks are ended: no session or task of a finished connection
\* remains.
C36_NothingRemainsOfEndedConnection ==
    (ts # Idle /\ ConnectionEnded)
        ~> (ts.pc = "closed" /\ NoPtyAlive /\ NoSessionTracked
              /\ NoTaskRemains)

\* Every ended connection eventually has its handler finished with no
\* session tracked by the service.
Try_EndedConnectionIsUntracked ==
    (ts # Idle /\ ConnectionEnded)
        ~> (ts.pc = "closed" /\ NoSessionTracked)

\* The handler is finished, nothing is tracked and no task runs, and a PTY
\* process of the connection is still running in the sandbox.
PtyOutlivesConnection ==
    /\ ts # Idle
    /\ ts.pc = "closed"
    /\ NoSessionTracked /\ NoTaskRemains
    /\ ts.alive # {}

\* Once the handler is finished, no task of the connection is running and
\* no session is tracked.
Try_NoTaskOutlivesConnection ==
    (ts # Idle /\ ts.pc = "closed") => NoTaskRemains /\ NoSessionTracked

====
